---- MODULE Spec2Model ----
(***************************************************************************)
(* The chat client of get-chat: the App shell (credential, current user)   *)
(* and the ChatPage view (message logs, unread counters, push socket,      *)
(* pull requests in flight).                                               *)
(***************************************************************************)
EXTENDS Integers, Naturals, Sequences, FiniteSets

\* ------------------------------------------------------------------ bounds
MaxLog == 2          \* most entries held in the two message logs together
MaxUnread == 2       \* largest sum of the unread counters
MaxFrames == 2       \* most frames written on one push connection
MaxPending == 2      \* most pull requests in flight at once

\* ---------------------------------------------------------------- universe
NULL == "null"       \* JavaScript null / undefined / absent field
Token == "tok"
Token2 == "tok2"     \* the credential of a second successful login
Me == "u1"
Peers == {"u2", "u21"}
Groups == {"g1", "g12"}
Users == {Me} \cup Peers

\* String.prototype.includes over the ids: "u21" contains "u2", "g12"
\* contains "g1"
Includes(a, b) ==
  a = b \/ <<a, b>> \in {<<"u21", "u2">>, <<"g12", "g1">>}

\* The messages the server can hold; ids and timestamps are server assigned.
DirectUniverse ==
  { [id |-> "m1", sender_id |-> "u1", receiver_id |-> "u2", timestamp |-> 1],
    [id |-> "m2", sender_id |-> "u2", receiver_id |-> "u1", timestamp |-> 2],
    [id |-> "m3", sender_id |-> "u21", receiver_id |-> "u1", timestamp |-> 3],
    [id |-> "m4", sender_id |-> "u1", receiver_id |-> "u21", timestamp |-> 4] }

GroupUniverse ==
  { [id |-> "k1", group_id |-> "g1", sender_id |-> "u1", timestamp |-> 1],
    [id |-> "k2", group_id |-> "g1", sender_id |-> "u2", timestamp |-> 2],
    [id |-> "k3", group_id |-> "g12", sender_id |-> "u2", timestamp |-> 3] }

\* The directory listing GET /api/users returns.
ServerUsers == <<"u2", "u21">>

\* a group as the server lists it
Grp(id, members) == [id |-> id, members |-> members]

\* The listings GET /api/groups can return as the current user's groups and
\* their members change on the server.
GroupListings ==
  { <<>>,
    <<Grp("g1", {"u1", "u2"})>>,
    <<Grp("g1", {"u1", "u2"}), Grp("g12", {"u1", "u21"})>>,
    <<Grp("g1", {"u1", "u2", "u21"}), Grp("g12", {"u1", "u21"})>> }

\* The listings GET /api/group-invitations can return.
InvitationListings == {<<>>, <<[id |-> "i1", group_id |-> "g12"]>>}

VARIABLES
  \* App
  authToken, storedToken, currentUser, showProfile,
  \* ChatPage
  chat, users, groups, invitations, messages, groupMessages,
  selectedUser, selectedGroup, selectedFile, newMessage, websocket, unreadCounts, groupUnreadCounts,
  \* the push socket of the mounted ChatPage: its state, the number of frames
  \* written on it and the last of them, and the closure of its handlers
  readyState, framesOut, lastFrame, wsUser, superseded,
  \* pull requests in flight
  pending,
  \* the server: the ids of the direct messages created so far
  created

listVars == <<users, groups, invitations>>
appVars == <<authToken, storedToken, currentUser, showProfile>>
logVars == <<messages, groupMessages>>
countVars == <<unreadCounts, groupUnreadCounts>>
selVars == <<selectedUser, selectedGroup, selectedFile>>
sockVars == <<websocket, readyState, framesOut, lastFrame, wsUser, superseded>>
vars == <<authToken, storedToken, currentUser, showProfile, chat, users, groups, invitations,
          messages, groupMessages, selectedUser, selectedGroup, selectedFile,
          newMessage, websocket, unreadCounts, groupUnreadCounts, readyState,
          framesOut, lastFrame, wsUser, superseded, pending, created>>

\* ----------------------------------------------------------------- helpers
Exists(log, id) == \E i \in 1..Len(log) : log[i].id = id

CountId(log, id) == Cardinality({i \in 1..Len(log) : log[i].id = id})

\* the values of Date.now().toString()
DateNow == {"t1", "t2"}

\* data.id || Date.now().toString()
IdOr(id, now) == IF id = NULL THEN now ELSE id

\* data.is_read || false
OrFalse(x) == IF x = NULL THEN FALSE ELSE x = "true"

\* (prevCounts[k] || 0) + 1 with the spread of the other keys
Increment(counts, k) == [counts EXCEPT ![k] = @ + 1]

\* delete newCounts[k]; an absent key reads as 0
DeleteKey(counts, k) == [counts EXCEPT ![k] = 0]

IndexOf(list, u) ==
  IF \E i \in 1..Len(list) : list[i] = u
  THEN CHOOSE i \in 1..Len(list) : list[i] = u /\ \A j \in 1..(i-1) : list[j] # u
  ELSE 0

\* splice the sender out and unshift it
MoveToTop(list, u) ==
  LET i == IndexOf(list, u) IN
  IF i = 0 THEN list
  ELSE <<list[i]>> \o SubSeq(list, 1, i-1) \o SubSeq(list, i+1, Len(list))

\* the same without the duplicate check
ApplyMessage_Unchecked(log, newMsg) == Append(log, newMsg)

\* setMessages(prev => exists ? prev : [...prev, newMsg])
ApplyMessage(log, newMsg) ==
  IF Exists(log, newMsg.id) THEN log ELSE Append(log, newMsg)

\* a frame written with websocket.send: its type and the message_ids it lists
Frame(type, ids) == [type |-> type, ids |-> ids]

NoFrame == Frame(NULL, {})

Req(kind, peer, wsh, ids) ==
  [kind |-> kind, peer |-> peer, ws |-> wsh, ids |-> ids, data |-> NULL,
   live |-> TRUE]

\* a request may be issued while fewer than MaxPending are in flight and no
\* identical one is
CanIssue(reqs) ==
  /\ reqs \cap pending = {}
  /\ Cardinality(pending \cup reqs) <= MaxPending

\* the values ws.onmessage reads for selectedUser / selectedGroup: the socket
\* effect runs once per authToken, in the render where both are still null
onmessage_selectedUser == NULL
onmessage_selectedGroup == NULL

ZeroCounts(keys) == [k \in keys |-> 0]

RECURSIVE Total(_, _)
Total(counts, keys) ==
  IF keys = {} THEN 0
  ELSE LET k == CHOOSE x \in keys : TRUE
       IN counts[k] + Total(counts, keys \ {k})

\* the explored part of the state space: what the logs and counters hold
LogsFit(direct, group) == Len(direct) + Len(group) <= MaxLog
CountsFit(direct, group) ==
  Total(direct, Users) + Total(group, Groups) <= MaxUnread

\* requests of a ChatPage that has been unmounted: their setState calls are
\* no-ops, only handleLogout still acts
Orphaned(reqs) ==
  {IF r.kind = "GET /api/current-user" THEN r ELSE [r EXCEPT !.live = FALSE] :
     r \in reqs}

\* the history effects (deps: selection, authToken, currentUser, websocket)
FetchMessagesEffect(su, cu, wsh) ==
  IF su # NULL /\ cu # NULL THEN {Req("GET /api/messages", su, wsh, {})} ELSE {}

FetchGroupMessagesEffect(sg, cu, wsh) ==
  IF sg # NULL /\ cu # NULL
  THEN {Req("GET /api/group-messages", sg, wsh, {})} ELSE {}

\* useState initial values of a ChatPage; a mounted one opens its socket
FreshChat(mounted, cu) ==
  /\ chat' = mounted
  /\ users' = <<>>
  /\ groups' = <<>>
  /\ invitations' = <<>>
  /\ messages' = <<>>
  /\ groupMessages' = <<>>
  /\ selectedUser' = NULL
  /\ selectedGroup' = NULL
  /\ selectedFile' = FALSE
  /\ newMessage' = ""
  /\ websocket' = FALSE
  /\ unreadCounts' = ZeroCounts(Users)
  /\ groupUnreadCounts' = ZeroCounts(Groups)
  /\ readyState' = IF mounted THEN "CONNECTING" ELSE "NONE"
  /\ framesOut' = 0
  /\ lastFrame' = NoFrame
  /\ wsUser' = IF mounted THEN cu ELSE NULL
  /\ superseded' = FALSE

chatVars == <<chat, users, groups, invitations, messages, groupMessages, selectedUser,
              selectedGroup, selectedFile, newMessage, websocket,
              unreadCounts, groupUnreadCounts, readyState, framesOut,
              lastFrame, wsUser, superseded>>

\* ChatPage.handleLogout followed by App.handleLogout; the route leaves /chat
HandleLogout(rest) ==
  /\ storedToken' = FALSE
  /\ authToken' = NULL
  /\ currentUser' = NULL
  /\ showProfile' = showProfile
  /\ FreshChat(FALSE, NULL)
  /\ pending' = Orphaned(rest)

\* a render throws (a list state holds a value that is not an array): React
\* unmounts the whole tree, App included; the stored credential stays
Crash(rest) ==
  /\ storedToken' = storedToken
  /\ authToken' = NULL
  /\ currentUser' = NULL
  /\ showProfile' = FALSE
  /\ FreshChat(FALSE, NULL)
  /\ pending' = {[r EXCEPT !.live = FALSE] : r \in rest}

Init ==
  /\ authToken = NULL
  /\ storedToken = FALSE
  /\ currentUser = NULL
  /\ showProfile = FALSE
  /\ chat = FALSE
  /\ users = <<>>
  /\ groups = <<>>
  /\ invitations = <<>>
  /\ messages = <<>>
  /\ groupMessages = <<>>
  /\ selectedUser = NULL
  /\ selectedGroup = NULL
  /\ selectedFile = FALSE
  /\ newMessage = ""
  /\ websocket = FALSE
  /\ unreadCounts = ZeroCounts(Users)
  /\ groupUnreadCounts = ZeroCounts(Groups)
  /\ readyState = "NONE"
  /\ framesOut = 0
  /\ lastFrame = NoFrame
  /\ wsUser = NULL
  /\ superseded = FALSE
  /\ pending = {}
  /\ created = {}

\* ---------------------------------------------------------------- App shell
\* LoginPage.handleSubmit succeeds: the token is stored and held, the route
\* becomes /chat, App fetches the current user, ChatPage mounts
Login ==
  /\ UNCHANGED created
  /\ authToken = NULL /\ ~storedToken
  /\ LET reqs == {Req("GET /api/current-user", NULL, FALSE, {})} \cup
                 (IF showProfile THEN {}
                  ELSE {Req("GET /api/users", NULL, FALSE, {})})
     IN /\ CanIssue(reqs)
        /\ pending' = pending \cup reqs
  /\ authToken' = Token
  /\ storedToken' = TRUE
  /\ UNCHANGED <<currentUser, showProfile>>
  /\ FreshChat(~showProfile, currentUser)

\* the page is loaded again with a stored credential: App reads it, fetches
\* the current user and mounts ChatPage; the requests of the old page are gone
Reload ==
  /\ UNCHANGED created
  /\ authToken = NULL /\ storedToken
  /\ pending' = {Req("GET /api/current-user", NULL, FALSE, {}),
                 Req("GET /api/users", NULL, FALSE, {})}
  /\ authToken' = Token
  /\ showProfile' = FALSE
  /\ UNCHANGED <<storedToken, currentUser>>
  /\ FreshChat(TRUE, NULL)

\* a check that drops the credential held in state on a 401 but leaves the
\* stored token behind
CurrentUserResp_KeepsStoredToken(r, status) ==
  /\ UNCHANGED created
  /\ r \in pending /\ r.live /\ r.kind = "GET /api/current-user"
  /\ CASE status = "401" ->
            /\ storedToken' = storedToken
            /\ authToken' = NULL
            /\ currentUser' = NULL
            /\ showProfile' = showProfile
            /\ FreshChat(FALSE, NULL)
            /\ pending' = Orphaned(pending \ {r})
       [] status = "ok" ->
            /\ currentUser' = Me
            /\ UNCHANGED <<authToken, storedToken, showProfile, chatVars>>
            /\ LET reqs == IF chat /\ currentUser = NULL
                           THEN FetchMessagesEffect(selectedUser, Me, websocket)
                                \cup FetchGroupMessagesEffect(selectedGroup, Me, websocket)
                           ELSE {}
               IN /\ reqs \cap pending = {}
                  /\ pending' = (pending \ {r}) \cup reqs
       [] OTHER ->
            /\ pending' = pending \ {r}
            /\ UNCHANGED <<appVars, chatVars>>

\* fetchCurrentUser resolves
CurrentUserResp(r, status) ==
  /\ UNCHANGED created
  /\ r \in pending /\ r.live /\ r.kind = "GET /api/current-user"
  /\ CASE status = "401" ->
            /\ storedToken' = FALSE
            /\ authToken' = NULL
            /\ currentUser' = NULL
            /\ showProfile' = showProfile
            /\ FreshChat(FALSE, NULL)
            /\ pending' = Orphaned(pending \ {r})
       [] status = "ok" ->
            /\ currentUser' = Me
            /\ UNCHANGED <<authToken, storedToken, showProfile, chatVars>>
            /\ LET reqs == IF chat /\ currentUser = NULL
                           THEN FetchMessagesEffect(selectedUser, Me, websocket)
                                \cup FetchGroupMessagesEffect(selectedGroup, Me, websocket)
                           ELSE {}
               IN /\ reqs \cap pending = {}
                  /\ pending' = (pending \ {r}) \cup reqs
       [] OTHER ->
            /\ pending' = pending \ {r}
            /\ UNCHANGED <<appVars, chatVars>>

\* the Profile button of ChatPage: App renders ProfilePage instead
ShowProfile ==
  /\ UNCHANGED created
  /\ chat
  /\ showProfile' = TRUE
  /\ UNCHANGED <<authToken, storedToken, currentUser>>
  /\ FreshChat(FALSE, NULL)
  /\ pending' = Orphaned(pending)

\* the Back button of ProfilePage: a new ChatPage mounts
HideProfile ==
  /\ UNCHANGED created
  /\ showProfile
  /\ showProfile' = FALSE
  /\ UNCHANGED <<authToken, storedToken, currentUser>>
  /\ IF authToken # NULL
     THEN /\ FreshChat(TRUE, currentUser)
          /\ LET reqs == {Req("GET /api/users", NULL, FALSE, {})}
             IN CanIssue(reqs) /\ pending' = pending \cup reqs
     ELSE /\ FreshChat(FALSE, NULL)
          /\ pending' = pending

\* the Logout button of ChatPage
Logout ==
  /\ UNCHANGED created
  /\ chat
  /\ HandleLogout(pending)

\* a response for a ChatPage that is no longer mounted
OrphanResp(r, status) ==
  /\ UNCHANGED created
  /\ r \in pending /\ ~r.live
  /\ IF status = "401"
     THEN HandleLogout(pending \ {r})
     ELSE /\ pending' = pending \ {r}
          /\ UNCHANGED <<appVars, chatVars>>

\* ------------------------------------------------------------- push socket
\* the open handler publishing the handle without the authenticate frame
WsOpen_Unauthenticated ==
  /\ UNCHANGED created
  /\ chat /\ readyState = "CONNECTING"
  /\ readyState' = "OPEN"
  /\ UNCHANGED <<framesOut, lastFrame>>
  /\ websocket' = TRUE
  /\ LET reqs == FetchMessagesEffect(selectedUser, currentUser, TRUE)
                 \cup FetchGroupMessagesEffect(selectedGroup, currentUser, TRUE)
     IN CanIssue(reqs) /\ pending' = pending \cup reqs
  /\ UNCHANGED <<appVars, chat, listVars, logVars, selVars, newMessage,
                 countVars, wsUser, superseded>>

\* ws.onopen
WsOpen ==
  /\ UNCHANGED created
  /\ chat /\ readyState = "CONNECTING"
  /\ readyState' = "OPEN"
  /\ framesOut' = 1
  /\ lastFrame' = Frame("authenticate", {})
  /\ websocket' = TRUE
  /\ LET reqs == FetchMessagesEffect(selectedUser, currentUser, TRUE)
                 \cup FetchGroupMessagesEffect(selectedGroup, currentUser, TRUE)
     IN CanIssue(reqs) /\ pending' = pending \cup reqs
  /\ UNCHANGED <<appVars, chat, listVars, logVars, selVars, newMessage,
                 countVars, wsUser, superseded>>

\* the closing handshake starts; no handler runs yet
WsClosing ==
  /\ UNCHANGED created
  /\ chat /\ readyState = "OPEN"
  /\ readyState' = "CLOSING"
  /\ UNCHANGED <<appVars, chat, listVars, logVars, selVars, newMessage,
                 countVars, websocket, framesOut, lastFrame, wsUser, superseded,
                 pending>>

\* a close handler that opens the next connection at once
WsClosed_Reconnects ==
  /\ UNCHANGED created
  /\ chat /\ readyState \in {"CONNECTING", "OPEN", "CLOSING"}
  /\ readyState' = "CONNECTING"
  /\ websocket' = FALSE
  /\ framesOut' = 0
  /\ lastFrame' = NoFrame
  /\ UNCHANGED <<appVars, chat, listVars, logVars, selVars, newMessage,
                 countVars, wsUser, superseded, pending>>

\* ws.onclose
WsClosed ==
  /\ UNCHANGED created
  /\ chat /\ readyState \in {"CONNECTING", "OPEN", "CLOSING"}
  /\ readyState' = "CLOSED"
  /\ websocket' = FALSE
  /\ LET reqs == IF websocket
                 THEN FetchMessagesEffect(selectedUser, currentUser, FALSE)
                      \cup FetchGroupMessagesEffect(selectedGroup, currentUser, FALSE)
                 ELSE {}
     IN CanIssue(reqs) /\ pending' = pending \cup reqs
  /\ UNCHANGED <<appVars, chat, listVars, logVars, selVars, newMessage,
                 countVars, framesOut, lastFrame, wsUser, superseded>>

\* LoginPage.handleSubmit does not block a second submission while the first
\* is in flight; the second answer reaches handleSetAuthToken after the first
\* has mounted ChatPage, whose first connection is still being established.
\* App's and ChatPage's effects keyed on authToken run again: the socket
\* effect's cleanup closes the connection, which is superseded by a new one;
\* the directory is fetched again and so is the history of the selection.
CredentialChange ==
  /\ UNCHANGED created
  /\ chat /\ authToken # NULL /\ readyState = "CONNECTING" /\ ~superseded
  /\ authToken' = IF authToken = Token THEN Token2 ELSE Token
  /\ storedToken' = TRUE
  /\ superseded' = TRUE
  /\ wsUser' = currentUser
  /\ LET reqs == {Req("GET /api/current-user", NULL, FALSE, {}),
                  Req("GET /api/users", NULL, FALSE, {})}
                 \cup FetchMessagesEffect(selectedUser, currentUser, websocket)
                 \cup FetchGroupMessagesEffect(selectedGroup, currentUser,
                                               websocket)
     IN /\ Cardinality(pending \cup reqs) <= MaxPending
        /\ pending' = pending \cup reqs
  /\ UNCHANGED <<currentUser, showProfile, chat, listVars, logVars, selVars,
                 newMessage, countVars, websocket, readyState, framesOut,
                 lastFrame>>

\* ws.onclose of the superseded connection: setWebsocket(null), whatever the
\* handle holds
SupersededClosed ==
  /\ UNCHANGED created
  /\ chat /\ superseded
  /\ superseded' = FALSE
  /\ websocket' = FALSE
  /\ LET reqs == IF websocket
                 THEN FetchMessagesEffect(selectedUser, currentUser, FALSE)
                      \cup FetchGroupMessagesEffect(selectedGroup, currentUser, FALSE)
                 ELSE {}
     IN CanIssue(reqs) /\ pending' = pending \cup reqs
  /\ UNCHANGED <<appVars, chat, listVars, logVars, selVars, newMessage,
                 countVars, readyState, framesOut, lastFrame, wsUser>>

\* ------------------------------------------------------ environment inputs
\* a server message as a log entry / frame payload with the given read flag
WithRead(m, flag) ==
  [id |-> m.id, sender_id |-> m.sender_id, receiver_id |-> m.receiver_id,
   timestamp |-> m.timestamp, is_read |-> flag]

GroupWithRead(m, flag) ==
  [id |-> m.id, group_id |-> m.group_id, sender_id |-> m.sender_id,
   timestamp |-> m.timestamp, is_read |-> flag]

\* the direct messages the server holds
Existing == {m \in DirectUniverse : m.id \in created}

\* the messages the server can create next for a sender and receiver: ids are
\* assigned once and timestamps grow with creation
Fresh(from, to) ==
  {m \in DirectUniverse :
     /\ m.sender_id = from /\ m.receiver_id = to
     /\ m.id \notin created
     /\ \A c \in Existing : c.timestamp < m.timestamp}

\* another user sends the current user a message
PeerSend(m) ==
  /\ m \in Fresh(m.sender_id, Me) /\ m.sender_id # Me
  /\ created' = created \cup {m.id}
  /\ UNCHANGED <<appVars, chatVars, pending>>

\* push frames of type message / group_message; is_read is not sent
MessageEvents == {WithRead(m, NULL) : m \in Existing}
GroupMessageEvents == {GroupWithRead(m, NULL) : m \in GroupUniverse}

\* the same frames without an id field
AnonymousMessageEvents == {[d EXCEPT !.id = NULL] : d \in MessageEvents}
AnonymousGroupMessageEvents ==
  {[d EXCEPT !.id = NULL] : d \in GroupMessageEvents}

\* push frames of type notification announcing a message; one that announces
\* a group message names the member it is sent to or no receiver
NotificationEvents ==
  {[sender_id |-> m.sender_id, receiver_id |-> m.receiver_id,
    is_group |-> FALSE] : m \in Existing}
  \cup {[sender_id |-> m.sender_id, receiver_id |-> to,
         is_group |-> TRUE] : m \in GroupUniverse, to \in {NULL, Me}}

\* push frames of type read_status: listing message_ids, or naming one
\* message_id
ReadStatusEvents ==
  {[message_id |-> NULL, message_ids |-> {m.id}] : m \in Existing}
  \cup {[message_id |-> m.id, message_ids |-> {}] : m \in Existing}

\* push frames of type group_read_status
GroupReadStatusEvents == {[group_id |-> g] : g \in Groups}

\* push frames of type error
ErrorEvents == {[message |-> "Token has expired"], [message |-> "Invalid token"]}

\* a set of server messages as the JSON array of a history response, in
\* timestamp order
ByTimestamp(S) ==
  CHOOSE s \in [1..Cardinality(S) -> S] :
    /\ \A i, j \in 1..Cardinality(S) : i < j => s[i].timestamp < s[j].timestamp

HistoryData(S, R) ==
  LET s == ByTimestamp(S) IN [i \in 1..Len(s) |-> WithRead(s[i], s[i] \in R)]

GroupHistoryData(S, R) ==
  LET s == ByTimestamp(S) IN [i \in 1..Len(s) |-> GroupWithRead(s[i], s[i] \in R)]

\* ---------------------------------------------------- ChatPage: selection
\* handleSelectUser, then the fetchMessages effect of the next render
HandleSelectUser(u) ==
  /\ UNCHANGED created
  /\ chat
  /\ selectedUser' = u
  /\ selectedGroup' = NULL
  /\ unreadCounts' = DeleteKey(unreadCounts, u)
  /\ LET reqs == IF selectedUser # u
                 THEN FetchMessagesEffect(u, currentUser, websocket) ELSE {}
     IN CanIssue(reqs) /\ pending' = pending \cup reqs
  /\ UNCHANGED <<appVars, chat, listVars, logVars, selectedFile, newMessage,
                 groupUnreadCounts, sockVars>>

\* handleSelectGroup, then the fetchGroupMessages effect of the next render
HandleSelectGroup(g) ==
  /\ UNCHANGED created
  /\ chat
  /\ selectedGroup' = g
  /\ selectedUser' = NULL
  /\ groupUnreadCounts' = DeleteKey(groupUnreadCounts, g)
  /\ LET reqs == IF selectedGroup # g
                 THEN FetchGroupMessagesEffect(g, currentUser, websocket) ELSE {}
     IN CanIssue(reqs) /\ pending' = pending \cup reqs
  /\ UNCHANGED <<appVars, chat, listVars, logVars, selectedFile, newMessage,
                 unreadCounts, sockVars>>

\* the message input's onChange
TypeMessage ==
  /\ UNCHANGED created
  /\ chat /\ newMessage = ""
  /\ newMessage' = "hi"
  /\ UNCHANGED <<appVars, chat, listVars, logVars, selVars, countVars, sockVars,
                 pending>>

\* ------------------------------------------------- ChatPage: the directory
\* a tick of an interval that is never cleared
DirectoryTick_FreeRunning ==
  /\ UNCHANGED created
  /\ LET reqs == {Req("GET /api/users", NULL, FALSE, {})}
     IN CanIssue(reqs) /\ pending' = pending \cup reqs
  /\ UNCHANGED <<appVars, chatVars>>

\* a tick of the 30 s interval
DirectoryTick ==
  /\ UNCHANGED created
  /\ chat
  /\ LET reqs == {Req("GET /api/users", NULL, FALSE, {})}
     IN CanIssue(reqs) /\ pending' = pending \cup reqs
  /\ UNCHANGED <<appVars, chatVars>>

\* the request that follows r in a chain of awaited fetches
Follow(r, next) ==
  /\ next \notin pending
  /\ pending' = (pending \ {r}) \cup {next}

\* fetchUsersAndGroups: the users listing resolves; response.ok is not
\* examined, so the JSON body of an error status (500) is stored as the users
\* list and the next render throws on users.filter.  The groups listing is
\* requested next.
DirectoryResp(r, status) ==
  /\ UNCHANGED created
  /\ r \in pending /\ r.live /\ r.kind = "GET /api/users"
  /\ CASE status = "401" -> HandleLogout(pending \ {r})
       [] status = "ok" ->
            /\ users' = ServerUsers
            /\ Follow(r, Req("GET /api/groups", NULL, FALSE, {}))
            /\ UNCHANGED <<appVars, chat, groups, invitations, logVars,
                           selVars, newMessage, countVars, sockVars>>
       [] status = "500" -> Crash(pending \ {r})
       [] OTHER ->
            /\ pending' = pending \ {r}
            /\ UNCHANGED <<appVars, chatVars>>

\* fetchUsersAndGroups continues after GET /api/groups: a body that is not an
\* array (an error status) empties the list; the invitations are requested
\* next
GroupsResp(r, status, data) ==
  /\ UNCHANGED created
  /\ r \in pending /\ r.live /\ r.kind = "GET /api/groups"
  /\ CASE status = "401" -> HandleLogout(pending \ {r})
       [] status \in {"ok", "500"} ->
            /\ groups' = IF status = "ok" THEN data ELSE <<>>
            /\ Follow(r, Req("GET /api/group-invitations", NULL, FALSE, {}))
            /\ UNCHANGED <<appVars, chat, users, invitations, logVars,
                           selVars, newMessage, countVars, sockVars>>
       [] OTHER ->
            /\ pending' = pending \ {r}
            /\ UNCHANGED <<appVars, chatVars>>

\* fetchUsersAndGroups continues after GET /api/group-invitations
InvitationsResp(r, status, data) ==
  /\ UNCHANGED created
  /\ r \in pending /\ r.live /\ r.kind = "GET /api/group-invitations"
  /\ CASE status = "401" -> HandleLogout(pending \ {r})
       [] status = "ok" ->
            /\ invitations' = data
            /\ pending' = pending \ {r}
            /\ UNCHANGED <<appVars, chat, users, groups, logVars, selVars,
                           newMessage, countVars, sockVars>>
       [] OTHER ->
            /\ pending' = pending \ {r}
            /\ UNCHANGED <<appVars, chatVars>>

\* ------------------------------------------------------------ ws.onmessage
Receiving == chat /\ readyState \in {"OPEN", "CLOSING"}

\* data.type === 'message'
OnMessage(data) ==
  /\ UNCHANGED created
  /\ Receiving
  /\ \E now \in DateNow :
     LET newMsg == [id |-> IdOr(data.id, now), sender_id |-> data.sender_id,
                    receiver_id |-> data.receiver_id,
                    timestamp |-> data.timestamp,
                    is_read |-> OrFalse(data.is_read)]
         isReceiver == data.receiver_id = wsUser /\ data.sender_id # wsUser
         notViewing == onmessage_selectedUser = NULL
                       \/ onmessage_selectedUser # data.sender_id
     IN /\ messages' = ApplyMessage(messages, newMsg)
        /\ LogsFit(messages', groupMessages)
        /\ users' = IF isReceiver THEN MoveToTop(users, data.sender_id) ELSE users
        /\ unreadCounts' = IF isReceiver /\ notViewing
                           THEN Increment(unreadCounts, data.sender_id)
                           ELSE unreadCounts
        /\ CountsFit(unreadCounts', groupUnreadCounts)
  /\ UNCHANGED <<appVars, chat, groups, invitations, groupMessages, selVars,
                 newMessage, groupUnreadCounts, sockVars, pending>>

\* the group_message handler also taking the sender for a member of the group
OnGroupMessage_JoinsSender(data) ==
  /\ UNCHANGED created
  /\ Receiving
  /\ \E now \in DateNow :
     LET newMsg == [id |-> IdOr(data.id, now), group_id |-> data.group_id,
                    sender_id |-> data.sender_id,
                    timestamp |-> data.timestamp,
                    is_read |-> OrFalse(data.is_read)]
         notViewing == onmessage_selectedGroup = NULL
                       \/ onmessage_selectedGroup # data.group_id
     IN /\ groupMessages' = ApplyMessage(groupMessages, newMsg)
        /\ LogsFit(messages, groupMessages')
        /\ groupUnreadCounts' = IF data.sender_id # wsUser /\ notViewing
                                THEN Increment(groupUnreadCounts, data.group_id)
                                ELSE groupUnreadCounts
        /\ CountsFit(unreadCounts, groupUnreadCounts')
        /\ groups' = [i \in 1..Len(groups) |->
                        IF groups[i].id = data.group_id
                        THEN Grp(groups[i].id,
                                 groups[i].members \cup {data.sender_id})
                        ELSE groups[i]]
  /\ UNCHANGED <<appVars, chat, users, invitations, messages, selVars,
                 newMessage, unreadCounts, sockVars, pending>>

\* data.type === 'group_message'
OnGroupMessage(data) ==
  /\ UNCHANGED created
  /\ Receiving
  /\ \E now \in DateNow :
     LET newMsg == [id |-> IdOr(data.id, now), group_id |-> data.group_id,
                    sender_id |-> data.sender_id,
                    timestamp |-> data.timestamp,
                    is_read |-> OrFalse(data.is_read)]
         notViewing == onmessage_selectedGroup = NULL
                       \/ onmessage_selectedGroup # data.group_id
     IN /\ groupMessages' = ApplyMessage(groupMessages, newMsg)
        /\ LogsFit(messages, groupMessages')
        /\ groupUnreadCounts' = IF data.sender_id # wsUser /\ notViewing
                                THEN Increment(groupUnreadCounts, data.group_id)
                                ELSE groupUnreadCounts
        /\ CountsFit(unreadCounts, groupUnreadCounts')
  /\ UNCHANGED <<appVars, chat, listVars, messages, selVars, newMessage,
                 unreadCounts, sockVars, pending>>

\* data.type === 'notification'
OnNotification(data) ==
  /\ UNCHANGED created
  /\ Receiving
  /\ LET isRecipient == data.receiver_id = wsUser \/ data.is_group
         direct == isRecipient /\ data.sender_id # wsUser
                   /\ data.receiver_id = wsUser
         notViewing == onmessage_selectedUser = NULL
                       \/ onmessage_selectedUser # data.sender_id
     IN /\ users' = IF direct THEN MoveToTop(users, data.sender_id) ELSE users
        /\ unreadCounts' = IF direct /\ notViewing
                           THEN Increment(unreadCounts, data.sender_id)
                           ELSE unreadCounts
        /\ CountsFit(unreadCounts', groupUnreadCounts)
  /\ UNCHANGED <<appVars, chat, groups, invitations, logVars, selVars,
                 newMessage, groupUnreadCounts, sockVars, pending>>

\* the receipt applied by inverting the read flag of the entry
ApplyReadStatus_Toggle(log, data) ==
  [i \in 1..Len(log) |->
     IF log[i].id = data.message_id
     THEN [log[i] EXCEPT !.is_read = ~@]
     ELSE log[i]]

\* prevMessages.map(msg => msg.id === data.message_id
\*                           ? {...msg, is_read: true} : msg)
ApplyReadStatus(log, data) ==
  [i \in 1..Len(log) |->
     IF log[i].id = data.message_id
     THEN [log[i] EXCEPT !.is_read = TRUE]
     ELSE log[i]]

\* the read_status handler also clearing the unread counters
OnReadStatus_ClearsCounters(data) ==
  /\ UNCHANGED created
  /\ Receiving
  /\ messages' = ApplyReadStatus(messages, data)
  /\ unreadCounts' = ZeroCounts(Users)
  /\ UNCHANGED <<appVars, chat, listVars, groupMessages, selVars, newMessage,
                 groupUnreadCounts, sockVars, pending>>

\* data.type === 'read_status': the handler reads data.message_id
OnReadStatus(data) ==
  /\ UNCHANGED created
  /\ Receiving
  /\ messages' = ApplyReadStatus(messages, data)
  /\ UNCHANGED <<appVars, chat, listVars, groupMessages, selVars, newMessage,
                 countVars, sockVars, pending>>

\* prevMessages.map(msg => msg.group_id === data.group_id &&
\*   msg.sender_id === currentUser?.id ? {...msg, is_read: true} : msg)
ApplyGroupReadStatus(log, data, cu) ==
  [i \in 1..Len(log) |->
     IF log[i].group_id = data.group_id /\ log[i].sender_id = cu
     THEN [log[i] EXCEPT !.is_read = TRUE]
     ELSE log[i]]

\* data.type === 'group_read_status'
OnGroupReadStatus(data) ==
  /\ UNCHANGED created
  /\ Receiving
  /\ groupMessages' = ApplyGroupReadStatus(groupMessages, data, wsUser)
  /\ UNCHANGED <<appVars, chat, listVars, messages, selVars, newMessage,
                 countVars, sockVars, pending>>

\* the error handler leaving the chat view without localStorage.removeItem
OnError_KeepsToken(data) ==
  /\ UNCHANGED created
  /\ Receiving
  /\ IF data.message = "Token has expired"
     THEN Crash(pending)
     ELSE UNCHANGED <<appVars, chatVars, pending>>

\* data.type === 'error'
OnError(data) ==
  /\ UNCHANGED created
  /\ Receiving
  /\ IF data.message = "Token has expired"
     THEN HandleLogout(pending)
     ELSE UNCHANGED <<appVars, chatVars, pending>>

\* --------------------------------------------------------- history fetches
\* the fetched conversation merged into the log instead of replacing it
ConversationMessages_Merging(data, cu, peer) ==
  messages \o SelectSeq(data, LAMBDA msg :
    /\ \/ (msg.sender_id = cu /\ msg.receiver_id = peer)
       \/ (msg.sender_id = peer /\ msg.receiver_id = cu)
    /\ \A i \in 1..Len(messages) : messages[i].id # msg.id)

\* the conversation filter of fetchMessages; cu and peer are the currentUser
\* and selectedUser of the render that started the fetch
ConversationMessages(data, cu, peer) ==
  SelectSeq(data, LAMBDA msg :
    \/ (msg.sender_id = cu /\ msg.receiver_id = peer)
    \/ (msg.sender_id = peer /\ msg.receiver_id = cu))

\* the ids to flush chosen without the !msg.is_read test
UnreadMessageIds_IgnoringFlag(conv, peer) ==
  {conv[i].id : i \in {j \in 1..Len(conv) : conv[j].sender_id = peer}}

\* conversationMessages.filter(sender is the peer && !msg.is_read).map(id)
UnreadMessageIds(conv, peer) ==
  {conv[i].id : i \in {j \in 1..Len(conv) :
                         conv[j].sender_id = peer /\ ~conv[j].is_read}}

\* prevMessages.map(msg => ids.includes(msg.id) ? {...msg, is_read: true} : msg)
MarkRead(log, ids) ==
  [i \in 1..Len(log) |->
     IF log[i].id \in ids THEN [log[i] EXCEPT !.is_read = TRUE] ELSE log[i]]

\* the flush condition without the readyState comparison
FlushOpen_HandleOnly(r) == r.ws

\* websocket && websocket.readyState === WebSocket.OPEN in a history fetch:
\* websocket is the handle of the render that started the fetch
FlushOpen(r) == r.ws /\ readyState = "OPEN"

\* fetchMessages: GET /api/messages/{peer} resolves with the array of S, of
\* which R are flagged read
FetchMessagesResp(r, status, S, R) ==
  /\ UNCHANGED created
  /\ r \in pending /\ r.live /\ r.kind = "GET /api/messages"
  /\ CASE status = "401" -> HandleLogout(pending \ {r})
       [] status = "ok" ->
            LET conv == ConversationMessages(HistoryData(S, R), Me, r.peer)
                unreadMessageIds == UnreadMessageIds(conv, r.peer)
            IN /\ LogsFit(conv, groupMessages)
               /\ IF unreadMessageIds = {}
                  THEN /\ messages' = conv
                       /\ unreadCounts' = DeleteKey(unreadCounts, r.peer)
                       /\ pending' = pending \ {r}
                       /\ UNCHANGED <<framesOut, lastFrame>>
                  ELSE IF FlushOpen(r)
                  THEN /\ framesOut < MaxFrames
                       /\ framesOut' = framesOut + 1
                       /\ lastFrame' = Frame("read_status", unreadMessageIds)
                       /\ messages' = MarkRead(conv, unreadMessageIds)
                       /\ unreadCounts' = DeleteKey(unreadCounts, r.peer)
                       /\ pending' = pending \ {r}
                  ELSE /\ messages' = conv
                       /\ LET put == Req("PUT /api/messages/read", r.peer,
                                         r.ws, unreadMessageIds)
                          IN /\ put \notin pending
                             /\ pending' = (pending \ {r}) \cup {put}
                       /\ UNCHANGED <<unreadCounts, framesOut, lastFrame>>
               /\ UNCHANGED <<appVars, chat, listVars, groupMessages, selVars,
                              newMessage, groupUnreadCounts, websocket,
                              readyState, wsUser, superseded>>
       [] OTHER ->
            /\ pending' = pending \ {r}
            /\ UNCHANGED <<appVars, chatVars>>

\* fetchMessages continues after PUT /api/messages/read; the status of the
\* response is not examined, a rejected fetch skips the local update
ReadPutResp(r, status) ==
  /\ UNCHANGED created
  /\ r \in pending /\ r.live /\ r.kind = "PUT /api/messages/read"
  /\ messages' = IF status = "neterr" THEN messages
                 ELSE MarkRead(messages, r.ids)
  /\ unreadCounts' = DeleteKey(unreadCounts, r.peer)
  /\ pending' = pending \ {r}
  /\ UNCHANGED <<appVars, chat, listVars, groupMessages, selVars, newMessage,
                 groupUnreadCounts, sockVars>>

\* fetchGroupMessages: GET /api/group-messages/{group} resolves; response.ok
\* is not examined, so the JSON body of an error status (500) is stored as
\* the group log and the next render throws on groupMessages.filter
FetchGroupMessagesResp(r, status, S, R) ==
  /\ UNCHANGED created
  /\ r \in pending /\ r.live /\ r.kind = "GET /api/group-messages"
  /\ CASE status = "401" -> HandleLogout(pending \ {r})
       [] status = "ok" ->
            /\ groupMessages' = GroupHistoryData(S, R)
            /\ LogsFit(messages, groupMessages')
            /\ IF FlushOpen(r)
               THEN /\ framesOut < MaxFrames
                    /\ framesOut' = framesOut + 1
                    /\ lastFrame' = Frame("group_read_status", {})
               ELSE UNCHANGED <<framesOut, lastFrame>>
            /\ groupUnreadCounts' = DeleteKey(groupUnreadCounts, r.peer)
            /\ pending' = pending \ {r}
            /\ UNCHANGED <<appVars, chat, listVars, messages, selVars, newMessage,
                           unreadCounts, websocket, readyState, wsUser, superseded>>
       [] status = "500" -> Crash(pending \ {r})
       [] OTHER ->
            /\ pending' = pending \ {r}
            /\ UNCHANGED <<appVars, chatVars>>

\* ------------------------------------------------------- handleSendMessage
\* the send condition without the readyState comparison
PushOpen_HandleOnly == websocket

\* websocket && websocket.readyState === WebSocket.OPEN
PushOpen == websocket /\ readyState = "OPEN"

\* what the server makes of a message sent to peer: nothing (the frame or
\* request is lost or refused), or a new message
Creation(peer) == {{NULL}} \cup {{m.id} : m \in Fresh(Me, peer)}

\* handleSendMessage with an optimistic entry added on the push path
HandleSendMessage_Optimistic ==
  /\ chat /\ ~selectedFile
  /\ newMessage # "" /\ (selectedUser # NULL \/ selectedGroup # NULL)
  /\ currentUser # NULL
  /\ newMessage' = ""
  /\ IF selectedUser # NULL
     THEN \E made \in Creation(selectedUser) :
          /\ created' = created \cup (made \ {NULL})
          /\ groupMessages' = groupMessages
          /\ IF PushOpen
             THEN /\ framesOut < MaxFrames
                  /\ framesOut' = framesOut + 1
                  /\ lastFrame' = Frame("message", {})
                  /\ messages' = Append(messages,
                       [id |-> "tmp", sender_id |-> currentUser,
                        receiver_id |-> selectedUser, timestamp |-> 0,
                        is_read |-> FALSE])
                  /\ unreadCounts' = DeleteKey(unreadCounts, selectedUser)
                  /\ UNCHANGED pending
             ELSE /\ LET reqs == {[Req("POST /api/messages", selectedUser,
                                       FALSE, {}) EXCEPT !.data = d] : d \in made}
                     IN CanIssue(reqs) /\ pending' = pending \cup reqs
                  /\ UNCHANGED <<framesOut, lastFrame, unreadCounts, messages>>
     ELSE /\ UNCHANGED <<created, messages>>
          /\ IF PushOpen
             THEN /\ framesOut < MaxFrames
                  /\ framesOut' = framesOut + 1
                  /\ lastFrame' = Frame("group_message", {})
                  /\ groupMessages' = Append(groupMessages,
                       [id |-> "tmp", group_id |-> selectedGroup,
                        sender_id |-> currentUser, timestamp |-> 0,
                        is_read |-> FALSE])
                  /\ UNCHANGED <<pending, unreadCounts>>
             ELSE /\ LET reqs == {Req("POST /api/group-messages",
                                      selectedGroup, FALSE, {})}
                     IN CanIssue(reqs) /\ pending' = pending \cup reqs
                  /\ UNCHANGED <<framesOut, lastFrame, unreadCounts,
                                 groupMessages>>
  /\ UNCHANGED <<appVars, chat, listVars, selVars, groupUnreadCounts,
                 websocket, readyState, wsUser, superseded>>

\* a text send intent: the form is submitted with a draft and a selection
HandleSendMessage ==
  /\ chat /\ ~selectedFile
  /\ newMessage # "" /\ (selectedUser # NULL \/ selectedGroup # NULL)
  /\ currentUser # NULL
  /\ newMessage' = ""
  /\ IF selectedUser # NULL
     THEN \E made \in Creation(selectedUser) :
          /\ created' = created \cup (made \ {NULL})
          /\ IF PushOpen
             THEN /\ framesOut < MaxFrames
                  /\ framesOut' = framesOut + 1
                  /\ lastFrame' = Frame("message", {})
                  /\ unreadCounts' = DeleteKey(unreadCounts, selectedUser)
                  /\ UNCHANGED pending
             ELSE /\ LET reqs == {[Req("POST /api/messages", selectedUser,
                                       FALSE, {}) EXCEPT !.data = d] : d \in made}
                     IN CanIssue(reqs) /\ pending' = pending \cup reqs
                  /\ UNCHANGED <<framesOut, lastFrame, unreadCounts>>
     ELSE /\ UNCHANGED created
          /\ IF PushOpen
             THEN /\ framesOut < MaxFrames
                  /\ framesOut' = framesOut + 1
                  /\ lastFrame' = Frame("group_message", {})
                  /\ UNCHANGED <<pending, unreadCounts>>
             ELSE /\ LET reqs == {Req("POST /api/group-messages",
                                      selectedGroup, FALSE, {})}
                     IN CanIssue(reqs) /\ pending' = pending \cup reqs
                  /\ UNCHANGED <<framesOut, lastFrame, unreadCounts>>
  /\ UNCHANGED <<appVars, chat, listVars, logVars, selVars, groupUnreadCounts,
                 websocket, readyState, wsUser, superseded>>

\* the body of the response to POST /api/messages: the message created
CreatedMessage(r) ==
  WithRead(CHOOSE m \in DirectUniverse : m.id = r.data, FALSE)

\* the statuses the request can be answered with
SendStatuses(r) ==
  IF r.data = NULL THEN {"401", "500", "neterr"} ELSE {"ok", "neterr"}

\* a continuation that puts the text back into the input when the request
\* was not accepted
SendMessageResp_RestoresDraft(r, status) ==
  /\ UNCHANGED created
  /\ r \in pending /\ r.live /\ r.kind = "POST /api/messages"
  /\ status \in SendStatuses(r)
  /\ IF status = "401"
     THEN HandleLogout(pending \ {r})
     ELSE /\ messages' = IF status = "ok"
                         THEN Append(messages, CreatedMessage(r))
                         ELSE messages
          /\ LogsFit(messages', groupMessages)
          /\ newMessage' = IF status = "ok" THEN newMessage ELSE "hi"
          /\ unreadCounts' = DeleteKey(unreadCounts, r.peer)
          /\ pending' = pending \ {r}
          /\ UNCHANGED <<appVars, chat, listVars, groupMessages, selVars,
                         groupUnreadCounts, sockVars>>

\* handleSendMessage continues after POST /api/messages
SendMessageResp(r, status) ==
  /\ UNCHANGED created
  /\ r \in pending /\ r.live /\ r.kind = "POST /api/messages"
  /\ status \in SendStatuses(r)
  /\ IF status = "401"
     THEN HandleLogout(pending \ {r})
     ELSE /\ messages' = IF status = "ok"
                         THEN Append(messages, CreatedMessage(r))
                         ELSE messages
          /\ LogsFit(messages', groupMessages)
          /\ unreadCounts' = DeleteKey(unreadCounts, r.peer)
          /\ pending' = pending \ {r}
          /\ UNCHANGED <<appVars, chat, listVars, groupMessages, selVars,
                         newMessage, groupUnreadCounts, sockVars>>

\* handleSendMessage continues after POST /api/group-messages
SendGroupMessageResp(r, status) ==
  /\ UNCHANGED created
  /\ r \in pending /\ r.live /\ r.kind = "POST /api/group-messages"
  /\ IF status = "401"
     THEN HandleLogout(pending \ {r})
     ELSE /\ pending' = pending \ {r}
          /\ UNCHANGED <<appVars, chatVars>>

\* -------------------------------------------------- handleSendMediaMessage
\* handleFileSelect
SelectFile ==
  /\ UNCHANGED created
  /\ chat /\ ~selectedFile
  /\ selectedFile' = TRUE
  /\ UNCHANGED <<appVars, chat, listVars, logVars, selectedUser, selectedGroup,
                 newMessage, countVars, sockVars, pending>>

\* handleCancelFile
CancelFile ==
  /\ UNCHANGED created
  /\ chat /\ selectedFile
  /\ selectedFile' = FALSE
  /\ UNCHANGED <<appVars, chat, listVars, logVars, selectedUser, selectedGroup,
                 newMessage, countVars, sockVars, pending>>

\* the form is submitted with a file selected: the file is uploaded first
HandleSendMediaMessage ==
  /\ UNCHANGED created
  /\ chat /\ selectedFile
  /\ selectedUser # NULL /\ currentUser # NULL
  /\ LET reqs == {Req("POST /api/upload-media", selectedUser, websocket, {})}
     IN CanIssue(reqs) /\ pending' = pending \cup reqs
  /\ UNCHANGED <<appVars, chatVars>>

\* the rejection branch also running setSelectedFile(null)
UploadRejected_ClearsFile(r) ==
  /\ pending' = pending \ {r}
  /\ selectedFile' = FALSE
  /\ UNCHANGED <<appVars, chat, listVars, logVars, selectedUser, selectedGroup,
                 newMessage, countVars, sockVars, created>>

\* if (!uploadResponse.ok) { alert(...); return; } and the catch block
UploadRejected(r) ==
  /\ pending' = pending \ {r}
  /\ UNCHANGED <<appVars, chatVars, created>>

\* handleSendMediaMessage continues after POST /api/upload-media
UploadResp(r, status) ==
  /\ r \in pending /\ r.live /\ r.kind = "POST /api/upload-media"
  /\ CASE status = "401" -> UNCHANGED created /\ HandleLogout(pending \ {r})
       [] status = "ok" ->
            \E made \in Creation(r.peer) :
            /\ created' = created \cup (made \ {NULL})
            /\ IF FlushOpen(r)
               THEN /\ framesOut < MaxFrames
                    /\ framesOut' = framesOut + 1
                    /\ lastFrame' = Frame("message", {})
                    /\ selectedFile' = FALSE
                    /\ pending' = pending \ {r}
               ELSE /\ LET send == {[Req("POST /api/send-media-message",
                                         r.peer, r.ws, {}) EXCEPT !.data = d] :
                                      d \in made}
                       IN /\ send \cap pending = {}
                          /\ pending' = (pending \ {r}) \cup send
                    /\ UNCHANGED <<framesOut, lastFrame, selectedFile>>
            /\ UNCHANGED <<appVars, chat, listVars, logVars, selectedUser,
                           selectedGroup, newMessage, countVars, websocket,
                           readyState, wsUser, superseded>>
       [] OTHER -> UploadRejected(r)

\* handleSendMediaMessage continues after POST /api/send-media-message
SendMediaResp(r, status) ==
  /\ UNCHANGED created
  /\ r \in pending /\ r.live /\ r.kind = "POST /api/send-media-message"
  /\ status \in SendStatuses(r)
  /\ IF status = "401"
     THEN HandleLogout(pending \ {r})
     ELSE /\ messages' = IF status = "ok"
                         THEN Append(messages, CreatedMessage(r))
                         ELSE messages
          /\ LogsFit(messages', groupMessages)
          /\ selectedFile' = (IF status = "neterr" THEN selectedFile ELSE FALSE)
          /\ pending' = pending \ {r}
          /\ UNCHANGED <<appVars, chat, listVars, groupMessages, selectedUser,
                         selectedGroup, newMessage, countVars, sockVars>>

\* ------------------------------------------------------- group operations
\* handleCreateGroup: the form is submitted with a name and chosen members
HandleCreateGroup(members) ==
  /\ UNCHANGED created
  /\ chat /\ members # {}
  /\ LET reqs == {Req("POST /api/groups", NULL, FALSE, members)}
     IN CanIssue(reqs) /\ pending' = pending \cup reqs
  /\ UNCHANGED <<appVars, chatVars>>

\* handleCreateGroup continues: the group the server made, under the id g, is
\* appended to the list
CreateGroupResp(r, status, g) ==
  /\ UNCHANGED created
  /\ r \in pending /\ r.live /\ r.kind = "POST /api/groups"
  /\ CASE status = "401" -> HandleLogout(pending \ {r})
       [] status = "ok" ->
            /\ Len(groups) < Cardinality(Groups)
            /\ groups' = Append(groups, Grp(g, {Me} \cup r.ids))
            /\ pending' = pending \ {r}
            /\ UNCHANGED <<appVars, chat, users, invitations, logVars,
                           selVars, newMessage, countVars, sockVars>>
       [] OTHER ->
            /\ pending' = pending \ {r}
            /\ UNCHANGED <<appVars, chatVars>>

\* handleAcceptInvitation: PUT /api/group-invitations/{id} {status: accepted}
HandleAcceptInvitation(inv) ==
  /\ UNCHANGED created
  /\ chat /\ \E i \in 1..Len(invitations) : invitations[i] = inv
  /\ LET reqs == {Req("PUT /api/group-invitations", inv.id, FALSE, {})}
     IN CanIssue(reqs) /\ pending' = pending \cup reqs
  /\ UNCHANGED <<appVars, chatVars>>

\* handleAcceptInvitation continues: the groups are requested again
AcceptInvitationResp(r, status) ==
  /\ UNCHANGED created
  /\ r \in pending /\ r.live /\ r.kind = "PUT /api/group-invitations"
  /\ CASE status = "401" -> HandleLogout(pending \ {r})
       [] status = "ok" ->
            /\ Follow(r, Req("GET /api/groups (accepted)", r.peer, FALSE, {}))
            /\ UNCHANGED <<appVars, chatVars>>
       [] OTHER ->
            /\ pending' = pending \ {r}
            /\ UNCHANGED <<appVars, chatVars>>

\* handleAcceptInvitation continues after the second GET /api/groups: only
\* groupsResponse.ok is examined
RefreshGroupsResp(r, status, data) ==
  /\ UNCHANGED created
  /\ r \in pending /\ r.live /\ r.kind = "GET /api/groups (accepted)"
  /\ groups' = IF status = "ok" THEN data ELSE groups
  /\ pending' = pending \ {r}
  /\ UNCHANGED <<appVars, chat, users, invitations, logVars, selVars,
                 newMessage, countVars, sockVars>>

\* handleUpdateGroup: the settings form of a listed group is submitted
HandleUpdateGroup(g) ==
  /\ UNCHANGED created
  /\ chat /\ \E i \in 1..Len(groups) : groups[i].id = g
  /\ LET reqs == {[Req("PUT /api/groups", g, FALSE, {})
                    EXCEPT !.data = selectedGroup]}
     IN CanIssue(reqs) /\ pending' = pending \cup reqs
  /\ UNCHANGED <<appVars, chatVars>>

\* prevGroups.map(g => g.id === updatedGroup.id ? updatedGroup : g)
ReplaceGroup(list, updated) ==
  [i \in 1..Len(list) |-> IF list[i].id = updated.id THEN updated ELSE list[i]]

\* handleUpdateGroup continues with the group as the server now holds it.
\* The selectedGroup it tests is the one of the render in which the form was
\* submitted (r.data); setSelectedGroup(updatedGroup) leaves selectedUser
\* alone and reruns the group history effect
UpdateGroupResp(r, status, updated) ==
  /\ UNCHANGED created
  /\ r \in pending /\ r.live /\ r.kind = "PUT /api/groups"
  /\ CASE status = "401" -> HandleLogout(pending \ {r})
       [] status = "ok" ->
            /\ updated.id = r.peer
            /\ groups' = ReplaceGroup(groups, updated)
            /\ selectedGroup' = IF r.data = updated.id THEN updated.id
                                ELSE selectedGroup
            /\ LET reqs == IF r.data = updated.id
                           THEN FetchGroupMessagesEffect(updated.id,
                                                         currentUser, websocket)
                           ELSE {}
               IN /\ reqs \cap pending = {}
                  /\ pending' = (pending \ {r}) \cup reqs
            /\ UNCHANGED <<appVars, chat, users, invitations, logVars,
                           selectedUser, selectedFile, newMessage, countVars,
                           sockVars>>
       [] OTHER ->
            /\ pending' = pending \ {r}
            /\ UNCHANGED <<appVars, chatVars>>

\* the editing form of the focused group is submitted
\* (handleOpenGroupSettings(selectedGroup), then handleUpdateGroup)
UpdateSelectedGroup ==
  selectedGroup # NULL /\ HandleUpdateGroup(selectedGroup)

\* the groups the server can hold
GroupRecords ==
  UNION {{l[i] : i \in 1..Len(l)} : l \in GroupListings}

\* ------------------------------------------------------------------ render
\* the messages-container without the conversation filter
FilteredMessages_Unfiltered ==
  IF selectedUser # NULL THEN messages
  ELSE IF selectedGroup # NULL THEN groupMessages
  ELSE <<>>

\* the messages-container with ids matched by String.prototype.includes
FilteredMessages_Includes ==
  IF selectedUser # NULL
  THEN SelectSeq(messages, LAMBDA msg :
         \/ (msg.sender_id = currentUser
             /\ Includes(msg.receiver_id, selectedUser))
         \/ (Includes(msg.sender_id, selectedUser)
             /\ msg.receiver_id = currentUser))
  ELSE IF selectedGroup # NULL
  THEN SelectSeq(groupMessages,
                 LAMBDA msg : Includes(msg.group_id, selectedGroup))
  ELSE <<>>

\* the messages-container: the entries of the focused conversation, in the
\* order the log holds them
FilteredMessages ==
  IF selectedUser # NULL
  THEN SelectSeq(messages, LAMBDA msg :
         \/ (msg.sender_id = currentUser /\ msg.receiver_id = selectedUser)
         \/ (msg.sender_id = selectedUser /\ msg.receiver_id = currentUser))
  ELSE IF selectedGroup # NULL
  THEN SelectSeq(groupMessages, LAMBDA msg : msg.group_id = selectedGroup)
  ELSE <<>>

\* the users-list: users then groups, each tagged with its type
CombinedList ==
  [i \in 1..Len(users) |-> [type |-> "user", id |-> users[i]]]
  \o [i \in 1..Len(groups) |-> [type |-> "group", id |-> groups[i].id]]

\* (a, b) => a.type === 'group' ? -1 : 1
Compare(a, b) == IF a.type = "group" THEN -1 ELSE 1

\* the rearrangements of a list
Arrangements(list) ==
  {[i \in 1..Len(list) |-> list[f[i]]] :
     f \in {g \in [1..Len(list) -> 1..Len(list)] :
              \A i, j \in 1..Len(list) : i # j => g[i] # g[j]}}

\* [...list].sort(Compare).  Where Compare orders every pair of items the
\* same way round (at most one user and one group) the result is the one
\* ordered list; otherwise Compare is not a consistent comparator and the
\* order is left to the engine.
Sorted(list) ==
  IF \A i, j \in 1..Len(list) :
       i # j => Compare(list[i], list[j]) = 0 - Compare(list[j], list[i])
  THEN {p \in Arrangements(list) :
          \A i, j \in 1..Len(p) : i < j => Compare(p[i], p[j]) < 0}
  ELSE Arrangements(list)

\* the timestamp of the last message of a conversation of the list, 0 when
\* the logs hold none
LastTimestamp(item) ==
  LET log == IF item.type = "user"
             THEN SelectSeq(messages, LAMBDA msg :
                    \/ (msg.sender_id = currentUser /\ msg.receiver_id = item.id)
                    \/ (msg.sender_id = item.id /\ msg.receiver_id = currentUser))
             ELSE SelectSeq(groupMessages, LAMBDA msg : msg.group_id = item.id)
      stamps == {log[i].timestamp : i \in 1..Len(log)}
  IN IF stamps = {} THEN 0
     ELSE CHOOSE t \in stamps : \A u \in stamps : u <= t

\* ----------------------------------------------------------- specification
Statuses == {"ok", "401", "neterr"}

\* what the server holds for a conversation
DirectFor(peer) == {m \in Existing : peer \in {m.sender_id, m.receiver_id}}
GroupFor(g) == {m \in GroupUniverse : m.group_id = g}

\* what a set of messages was at some earlier time
Earlier(A) ==
  {{m \in A : m.timestamp <= t} : t \in {0} \cup {m.timestamp : m \in A}}

\* the responses to a history request: a failure, or the array of the
\* conversation's messages as of some time since the request (or of all
\* messages `all` the server holds), with none or all of them flagged read
HistoryResponses(own, all) ==
  {[status |-> st, S |-> {}, R |-> {}] : st \in {"401", "500", "neterr"}}
  \cup UNION {{[status |-> "ok", S |-> S, R |-> R] : R \in {{}, S}} :
                S \in Earlier(own) \cup {all}}
AllStatuses == {"ok", "401", "500", "neterr"}

Next ==
  \/ Login
  \/ \E r \in pending, st \in Statuses : CurrentUserResp(r, st)
  \/ ShowProfile
  \/ HideProfile
  \/ Logout
  \/ \E r \in pending, st \in Statuses : OrphanResp(r, st)
  \/ WsOpen
  \/ WsClosing
  \/ WsClosed
  \/ \E u \in Peers : HandleSelectUser(u)
  \/ \E g \in Groups : HandleSelectGroup(g)
  \/ TypeMessage
  \/ DirectoryTick
  \/ \E r \in pending, st \in AllStatuses : DirectoryResp(r, st)
  \/ \E r \in pending, st \in AllStatuses, l \in GroupListings :
       GroupsResp(r, st, l)
  \/ \E r \in pending, st \in AllStatuses, l \in InvitationListings :
       InvitationsResp(r, st, l)
  \/ \E ms \in SUBSET Peers : HandleCreateGroup(ms)
  \/ \E r \in pending, st \in AllStatuses, g \in Groups :
       CreateGroupResp(r, st, g)
  \/ \E l \in InvitationListings :
       \E i \in 1..Len(l) : HandleAcceptInvitation(l[i])
  \/ \E r \in pending, st \in AllStatuses : AcceptInvitationResp(r, st)
  \/ \E r \in pending, st \in AllStatuses, l \in GroupListings :
       RefreshGroupsResp(r, st, l)
  \/ \E g \in Groups : HandleUpdateGroup(g)
  \/ \E r \in pending, st \in AllStatuses, g \in GroupRecords :
       UpdateGroupResp(r, st, g)
  \/ \E m \in DirectUniverse : PeerSend(m)
  \/ \E d \in MessageEvents : OnMessage(d)
  \/ \E d \in GroupMessageEvents : OnGroupMessage(d)
  \/ \E d \in NotificationEvents : OnNotification(d)
  \/ \E r \in pending :
       \E h \in HistoryResponses(DirectFor(r.peer), Existing) :
         FetchMessagesResp(r, h.status, h.S, h.R)
  \/ \E r \in pending, st \in AllStatuses : ReadPutResp(r, st)
  \/ \E r \in pending :
       \E h \in HistoryResponses(GroupFor(r.peer), GroupFor(r.peer)) :
         FetchGroupMessagesResp(r, h.status, h.S, h.R)
  \/ HandleSendMessage
  \/ \E r \in pending, st \in AllStatuses : SendMessageResp(r, st)
  \/ \E r \in pending, st \in AllStatuses : SendGroupMessageResp(r, st)
  \/ Reload
  \/ CredentialChange
  \/ SupersededClosed
  \/ \E d \in AnonymousMessageEvents : OnMessage(d)
  \/ \E d \in AnonymousGroupMessageEvents : OnGroupMessage(d)
  \/ \E d \in ReadStatusEvents : OnReadStatus(d)
  \/ \E d \in GroupReadStatusEvents : OnGroupReadStatus(d)
  \/ \E d \in ErrorEvents : OnError(d)
  \/ SelectFile
  \/ CancelFile
  \/ HandleSendMediaMessage
  \/ \E r \in pending, st \in AllStatuses : UploadResp(r, st)
  \/ \E r \in pending, st \in AllStatuses : SendMediaResp(r, st)

Spec == Init /\ [][Next]_vars

\* A ChatPage just mounted for a held credential whose current user is
\* known: after a login (the socket handlers then hold currentUser = null) or
\* after a return from the profile page (they hold the current user).
InitChat ==
  /\ authToken = Token
  /\ storedToken = TRUE
  /\ currentUser = Me
  /\ showProfile = FALSE
  /\ chat = TRUE
  /\ users = <<>>
  /\ groups = <<>>
  /\ invitations = <<>>
  /\ messages = <<>>
  /\ groupMessages = <<>>
  /\ selectedUser = NULL
  /\ selectedGroup = NULL
  /\ selectedFile = FALSE
  /\ newMessage = ""
  /\ websocket = FALSE
  /\ unreadCounts = ZeroCounts(Users)
  /\ groupUnreadCounts = ZeroCounts(Groups)
  /\ readyState = "CONNECTING"
  /\ framesOut = 0
  /\ lastFrame = NoFrame
  /\ wsUser \in {NULL, Me}
  /\ superseded = FALSE
  /\ pending = {}
  /\ created = {}

\* A ChatPage just mounted after a login: the socket handlers hold
\* currentUser = null
InitLogin == InitChat /\ wsUser = NULL

\* direct conversations: history, fallback sends and pushed messages
NextSync ==
  \/ WsOpen
  \/ WsClosing
  \/ WsClosed
  \/ \E u \in Peers : HandleSelectUser(u)
  \/ TypeMessage
  \/ \E m \in DirectUniverse : PeerSend(m)
  \/ \E d \in MessageEvents : OnMessage(d)
  \/ \E r \in pending :
       \E h \in HistoryResponses(DirectFor(r.peer), Existing) :
         FetchMessagesResp(r, h.status, h.S, h.R)
  \/ \E r \in pending, st \in AllStatuses : ReadPutResp(r, st)
  \/ HandleSendMessage
  \/ \E r \in pending, st \in AllStatuses : SendMessageResp(r, st)

SpecSync == InitLogin /\ [][NextSync]_vars

\* direct conversations: pushed messages and notifications against the
\* selection and its history fetch
NextUnread ==
  \/ WsOpen
  \/ WsClosing
  \/ WsClosed
  \/ \E u \in Peers : HandleSelectUser(u)
  \/ \E m \in DirectUniverse : PeerSend(m)
  \/ \E d \in MessageEvents : OnMessage(d)
  \/ \E d \in NotificationEvents : OnNotification(d)
  \/ \E r \in pending :
       \E h \in HistoryResponses(DirectFor(r.peer), Existing) :
         FetchMessagesResp(r, h.status, h.S, h.R)
  \/ \E r \in pending, st \in AllStatuses : ReadPutResp(r, st)

SpecUnread == InitChat /\ [][NextUnread]_vars

\* inbound push events only
NextPush ==
  \/ WsOpen
  \/ WsClosing
  \/ WsClosed
  \/ \E m \in DirectUniverse : PeerSend(m)
  \/ \E d \in MessageEvents : OnMessage(d)
  \/ \E d \in GroupMessageEvents : OnGroupMessage(d)
  \/ \E d \in NotificationEvents : OnNotification(d)

SpecPush == InitChat /\ [][NextPush]_vars

\* the responses to a history request once the whole conversation is read
ReadHistoryResponses(own) ==
  {[status |-> st, S |-> {}, R |-> {}] : st \in {"401", "500", "neterr"}}
  \cup {[status |-> "ok", S |-> own, R |-> own]}

NextSend ==
  \/ WsOpen
  \/ WsClosing
  \/ WsClosed
  \/ \E u \in Peers : HandleSelectUser(u)
  \/ HandleSelectGroup("g1")
  \/ TypeMessage
  \/ \E r \in pending :
       \E h \in ReadHistoryResponses(DirectFor(r.peer)) :
         FetchMessagesResp(r, h.status, h.S, h.R)
  \/ \E r \in pending :
       \E h \in ReadHistoryResponses(GroupFor(r.peer)) :
         FetchGroupMessagesResp(r, h.status, h.S, h.R)
  \/ HandleSendMessage
  \/ \E r \in pending, st \in AllStatuses : SendMessageResp(r, st)
  \/ \E r \in pending, st \in AllStatuses : SendGroupMessageResp(r, st)

SpecSend == InitLogin /\ [][NextSend]_vars

\* inbound frames of every type, with the history fetch of a selection
NextFrames ==
  \/ WsOpen
  \/ WsClosed
  \/ HandleSelectUser("u2")
  \/ \E m \in DirectUniverse : PeerSend(m)
  \/ \E d \in MessageEvents : OnMessage(d)
  \/ \E d \in AnonymousMessageEvents : OnMessage(d)
  \/ \E d \in GroupMessageEvents : OnGroupMessage(d)
  \/ \E d \in AnonymousGroupMessageEvents : OnGroupMessage(d)
  \/ \E d \in ReadStatusEvents : OnReadStatus(d)
  \/ \E d \in GroupReadStatusEvents : OnGroupReadStatus(d)
  \/ \E d \in ErrorEvents : OnError(d)
  \/ \E r \in pending :
       \E h \in HistoryResponses(DirectFor(r.peer), Existing) :
         FetchMessagesResp(r, h.status, h.S, h.R)
  \/ \E r \in pending, st \in Statuses : OrphanResp(r, st)

SpecFrames == InitChat /\ [][NextFrames]_vars

\* what is shown for a selection while both logs fill from pushes and history
NextView ==
  \/ WsOpen
  \/ \E u \in Peers : HandleSelectUser(u)
  \/ \E g \in Groups : HandleSelectGroup(g)
  \/ \E m \in DirectUniverse : PeerSend(m)
  \/ \E d \in MessageEvents : OnMessage(d)
  \/ \E d \in GroupMessageEvents : OnGroupMessage(d)
  \/ \E r \in pending :
       \E h \in ReadHistoryResponses(Existing) :
         FetchMessagesResp(r, h.status, h.S, h.R)
  \/ \E r \in pending :
       \E h \in ReadHistoryResponses(GroupUniverse) :
         FetchGroupMessagesResp(r, h.status, h.S, h.R)

SpecView == InitLogin /\ [][NextView]_vars

\* read-receipt flushes and sends of text and media against the socket state
NextFlush ==
  \/ WsOpen
  \/ WsClosing
  \/ WsClosed
  \/ HandleSelectUser("u2")
  \/ \E m \in {x \in DirectUniverse : x.sender_id = "u2"} : PeerSend(m)
  \/ \E r \in pending :
       \E h \in HistoryResponses(DirectFor(r.peer), Existing) :
         FetchMessagesResp(r, h.status, h.S, h.R)
  \/ \E r \in pending, st \in AllStatuses : ReadPutResp(r, st)
  \/ TypeMessage
  \/ HandleSendMessage
  \/ \E r \in pending, st \in Statuses : SendMessageResp(r, st)
  \/ SelectFile
  \/ CancelFile
  \/ HandleSendMediaMessage
  \/ \E r \in pending, st \in AllStatuses : UploadResp(r, st)
  \/ \E r \in pending, st \in Statuses : SendMediaResp(r, st)

SpecFlush == InitLogin /\ [][NextFlush]_vars

\* the conversation list: directory refreshes and pushes of every kind
NextList ==
  \/ WsOpen
  \/ DirectoryTick
  \/ \E r \in pending, st \in AllStatuses : DirectoryResp(r, st)
  \/ \E r \in pending, l \in GroupListings : GroupsResp(r, "ok", l)
  \/ \E r \in pending, st \in AllStatuses : GroupsResp(r, st, <<>>)
  \/ \E r \in pending, l \in InvitationListings : InvitationsResp(r, "ok", l)
  \/ \E r \in pending, st \in AllStatuses : InvitationsResp(r, st, <<>>)
  \/ \E m \in DirectUniverse : PeerSend(m)
  \/ \E d \in MessageEvents : OnMessage(d)
  \/ \E d \in GroupMessageEvents : OnGroupMessage(d)
  \/ \E d \in NotificationEvents : OnNotification(d)
  \/ \E d \in ReadStatusEvents : OnReadStatus(d)
  \/ \E d \in GroupReadStatusEvents : OnGroupReadStatus(d)
  \/ \E d \in ErrorEvents : OnError(d)

SpecList == InitChat /\ [][NextList]_vars

\* the group list and the invitations: directory refreshes, the create,
\* accept and update operations, and pushes of every kind
NextGroups ==
  \/ WsOpen
  \/ DirectoryTick
  \/ \E r \in pending : DirectoryResp(r, "ok")
  \/ \E r \in pending, l \in GroupListings : GroupsResp(r, "ok", l)
  \/ \E r \in pending, l \in InvitationListings : InvitationsResp(r, "ok", l)
  \/ HandleCreateGroup({"u2"})
  \/ \E r \in pending : CreateGroupResp(r, "ok", "g12")
  \/ \E i \in 1..Len(invitations) : HandleAcceptInvitation(invitations[i])
  \/ \E r \in pending : AcceptInvitationResp(r, "ok")
  \/ \E r \in pending, l \in GroupListings : RefreshGroupsResp(r, "ok", l)
  \/ HandleUpdateGroup("g1")
  \/ \E r \in pending, g \in GroupRecords : UpdateGroupResp(r, "ok", g)
  \/ \E m \in {x \in DirectUniverse : x.sender_id = "u2"} : PeerSend(m)
  \/ \E d \in MessageEvents : OnMessage(d)
  \/ \E d \in {e \in GroupMessageEvents : e.group_id = "g12"} :
       OnGroupMessage(d)
  \/ \E d \in NotificationEvents : OnNotification(d)
  \/ \E d \in ReadStatusEvents : OnReadStatus(d)
  \/ \E d \in GroupReadStatusEvents : OnGroupReadStatus(d)
  \/ \E d \in ErrorEvents : OnError(d)

SpecGroups == InitChat /\ [][NextGroups]_vars

\* sessions: login, the current-user check, profile, logout and reload
\* against the directory refresh and the push socket
NextSession ==
  \/ Login
  \/ \E r \in pending, st \in Statuses : CurrentUserResp(r, st)
  \/ ShowProfile
  \/ HideProfile
  \/ Logout
  \/ Reload
  \/ CredentialChange
  \/ SupersededClosed
  \/ \E r \in pending, st \in Statuses : OrphanResp(r, st)
  \/ WsOpen
  \/ WsClosed
  \/ DirectoryTick
  \/ \E r \in pending, st \in AllStatuses : DirectoryResp(r, st)
  \/ \E r \in pending, st \in AllStatuses, l \in GroupListings :
       GroupsResp(r, st, l)
  \/ \E r \in pending, st \in AllStatuses, l \in InvitationListings :
       InvitationsResp(r, st, l)
  \/ \E d \in ErrorEvents : OnError(d)

SpecSession == Init /\ [][NextSession]_vars

\* ------------------------------------------------------------------ claims

\* C1: handling a pushed message (or group_message) whose id is already in
\* the direct (or group) log leaves that log as it is, and handling one whose
\* id is absent makes the log exactly one entry longer.
C1_PushInsertIdempotent ==
  [][ /\ \A d \in MessageEvents :
           OnMessage(d) =>
             IF Exists(messages, d.id) THEN messages' = messages
             ELSE Len(messages') = Len(messages) + 1
      /\ \A d \in GroupMessageEvents :
           OnGroupMessage(d) =>
             IF Exists(groupMessages, d.id) THEN groupMessages' = groupMessages
             ELSE Len(groupMessages') = Len(groupMessages) + 1 ]_vars

\* a group message has been pushed twice (counted twice, logged once) and a
\* direct message once
C1_Witness ==
  /\ Len(messages) = 1
  /\ Len(groupMessages) = 1
  /\ groupUnreadCounts[groupMessages[1].group_id] = 2

\* C2: neither the direct log nor the group log ever holds two entries with
\* the same id.
C2_NoDuplicateIds ==
  /\ \A i, j \in 1..Len(messages) : i # j => messages[i].id # messages[j].id
  /\ \A i, j \in 1..Len(groupMessages) :
       i # j => groupMessages[i].id # groupMessages[j].id

\* C3: a history response for a conversation that is no longer the focused
\* one leaves the log shown for the focused conversation as it is.
C3_StaleResponseIgnored ==
  [][ /\ \A r \in pending :
           \A h \in HistoryResponses(DirectFor(r.peer), Existing) :
             (/\ h.status = "ok"
              /\ selectedUser # NULL /\ r.peer # selectedUser
              /\ FetchMessagesResp(r, h.status, h.S, h.R))
             => FilteredMessages' = FilteredMessages
      /\ \A r \in pending :
           \A h \in HistoryResponses(GroupFor(r.peer), GroupFor(r.peer)) :
             (/\ h.status = "ok"
              /\ selectedGroup # NULL /\ r.peer # selectedGroup
              /\ FetchGroupMessagesResp(r, h.status, h.S, h.R))
             => FilteredMessages' = FilteredMessages ]_vars

\* C4: the log shown for the focused conversation lists its messages by
\* timestamp: no entry is followed by one with a smaller timestamp.
C4_ShownInTimestampOrder ==
  \A i, j \in 1..Len(FilteredMessages) :
    i < j => ~(FilteredMessages[j].timestamp < FilteredMessages[i].timestamp)

\* C5: the unread counter of the focused conversation is 0.
C5_FocusedUnreadZero ==
  /\ selectedUser # NULL => unreadCounts[selectedUser] = 0
  /\ selectedGroup # NULL => groupUnreadCounts[selectedGroup] = 0

\* C6: a pushed message raises the unread counter of its conversation by 1
\* when its sender is not the current user and the conversation is not
\* focused, and changes no counter otherwise.
C6_UnreadIncrementRule ==
  [][ /\ \A d \in MessageEvents :
           OnMessage(d) =>
             /\ unreadCounts' =
                  IF d.sender_id # currentUser /\ selectedUser # d.sender_id
                  THEN Increment(unreadCounts, d.sender_id)
                  ELSE unreadCounts
             /\ groupUnreadCounts' = groupUnreadCounts
      /\ \A d \in GroupMessageEvents :
           OnGroupMessage(d) =>
             /\ groupUnreadCounts' =
                  IF d.sender_id # currentUser /\ selectedGroup # d.group_id
                  THEN Increment(groupUnreadCounts, d.group_id)
                  ELSE groupUnreadCounts
             /\ unreadCounts' = unreadCounts ]_vars

\* C7: each inbound message raises the unread counter of its conversation
\* by at most 1 however many events announce it, so the counter of a peer
\* never exceeds the number of messages that peer has sent the current user.
C7_CountedOnce ==
  \A u \in Peers :
    unreadCounts[u] <=
      Cardinality({m \in Existing : m.sender_id = u /\ m.receiver_id = Me})

\* C8: when the response to the fallback POST /api/messages returns the
\* message created, the direct log then holds exactly one entry with its id,
\* and a later pushed message with that id leaves the log as it is.
C8_FallbackInsertsOnce ==
  [][ /\ \A r \in pending :
           SendMessageResp(r, "ok") => CountId(messages', r.data) = 1
      /\ \A d \in MessageEvents :
           (OnMessage(d) /\ Exists(messages, d.id)) => messages' = messages
    ]_vars

\* C9: a text send intent makes exactly one transmission: one push frame
\* when the socket handle is held and the socket is open, otherwise one
\* create-message request and no frame; the continuation after the response
\* to a create-message request writes no frame and issues no request.
C9_OneTransmission ==
  [][ /\ HandleSendMessage =>
           IF websocket /\ readyState = "OPEN"
           THEN framesOut' = framesOut + 1 /\ pending' = pending
           ELSE /\ framesOut' = framesOut
                /\ pending \subseteq pending'
                /\ Cardinality(pending' \ pending) = 1
                /\ \A q \in pending' \ pending :
                     IF selectedUser # NULL
                     THEN q.kind = "POST /api/messages" /\ q.peer = selectedUser
                     ELSE q.kind = "POST /api/group-messages"
                          /\ q.peer = selectedGroup
      /\ \A r \in pending, st \in AllStatuses :
           (SendMessageResp(r, st) \/ SendGroupMessageResp(r, st)) =>
             /\ framesOut' <= framesOut
             /\ r \notin pending'
             /\ \A q \in pending' :
                  q \in pending \/ [q EXCEPT !.live = TRUE] \in pending ]_vars

\* a draft was sent by request while the handle was held but the socket was
\* closing, after the socket had carried frames
C9_Witness ==
  /\ websocket /\ readyState = "CLOSING"
  /\ framesOut = MaxFrames
  /\ newMessage = ""
  /\ \E r \in pending : r.kind = "POST /api/messages" /\ r.data # NULL

\* C10: a send intent delivered as a push frame leaves the direct log and
\* the group log as they are.
C10_PushSendKeepsLogs ==
  [][ (HandleSendMessage /\ websocket /\ readyState = "OPEN")
        => messages' = messages /\ groupMessages' = groupMessages ]_vars

\* a direct message has been sent as a frame and created by the server while
\* the log shown holds the earlier history only
C10_Witness ==
  /\ readyState = "OPEN" /\ framesOut = MaxFrames
  /\ newMessage = "" /\ pending = {}
  /\ selectedUser # NULL
  /\ Cardinality(created) = 2
  /\ Len(messages) = 1

\* C11: every entry of the message logs carries an id assigned by the server;
\* handling a push message or group_message event never inserts an entry under
\* an id generated by the client.
C11_ServerAssignedIds ==
  /\ \A i \in 1..Len(messages) : messages[i].id \notin DateNow
  /\ \A i \in 1..Len(groupMessages) : groupMessages[i].id \notin DateNow

\* C12: the log shown for a focused direct conversation holds only messages
\* whose sender and receiver are exactly the current user and the focused
\* peer, and for a focused group only messages of exactly that group id; ids
\* that are prefixes of one another ("u2" and "u21", "g1" and "g12") never
\* leak into each other's log.  The same holds for what a history response
\* stores as the direct log.
C12_ShownLogExact ==
  [][/\ \A i \in 1..Len(FilteredMessages') :
          LET msg == FilteredMessages'[i]
          IN IF selectedUser' # NULL
             THEN \/ (msg.sender_id = currentUser'
                      /\ msg.receiver_id = selectedUser')
                  \/ (msg.sender_id = selectedUser'
                      /\ msg.receiver_id = currentUser')
             ELSE msg.group_id = selectedGroup'
     /\ \A r \in pending :
          \A h \in ReadHistoryResponses(Existing) :
            FetchMessagesResp(r, h.status, h.S, h.R) /\ h.status = "ok" =>
              \A i \in 1..Len(messages') :
                {messages'[i].sender_id, messages'[i].receiver_id}
                  = {Me, r.peer}]_vars

\* a conversation is shown while the log also holds another conversation
\* whose peer id extends the focused one
C12_Witness ==
  /\ selectedUser = "u2"
  /\ Len(FilteredMessages) = 1
  /\ \E i \in 1..Len(messages) : messages[i].sender_id = "u21"

\* C13: for every pull request the chat view issues, a 401 response leads to
\* forced logout: the stored credential is removed and the in-memory session
\* state is reset.
C13_Every401LogsOut ==
  [][\A r \in pending :
       (\/ FetchMessagesResp(r, "401", {}, {})
        \/ ReadPutResp(r, "401")
        \/ SendMessageResp(r, "401")
        \/ UploadResp(r, "401")
        \/ SendMediaResp(r, "401"))
       => /\ ~storedToken'
          /\ authToken' = NULL
          /\ currentUser' = NULL
          /\ ~chat']_vars

\* C14: handling an error push frame that cites credential expiry removes the
\* stored credential and resets the session (credential and current user
\* cleared, chat view left), and no push frame is written in that session
\* afterwards.
C14_ExpiryFrameLogsOut ==
  [][/\ \A d \in ErrorEvents :
          d.message = "Token has expired" /\ OnError(d)
          => /\ ~storedToken'
             /\ authToken' = NULL
             /\ currentUser' = NULL
             /\ ~chat'
     /\ ~chat' => framesOut' = 0 /\ lastFrame' = NoFrame]_vars

\* logged out by the frame while a request of the session is still in flight
C14_Witness ==
  /\ ~chat /\ ~storedToken /\ authToken = NULL
  /\ \E r \in pending : ~r.live

\* C15: no fault other than credential expiry (a rejected or failed pull
\* request, a non-401 error status, a push-channel error or close) removes the
\* stored credential or resets session state, and such a fault leaves the
\* message logs and the unread counters unchanged.
C15_FaultsLeaveState ==
  [][(\/ \E r \in pending, st \in {"500", "neterr"} :
          \/ FetchMessagesResp(r, st, {}, {})
          \/ FetchGroupMessagesResp(r, st, {}, {})
          \/ SendMessageResp(r, st)
          \/ SendGroupMessageResp(r, st)
      \/ WsClosing
      \/ WsClosed)
     => UNCHANGED <<storedToken, authToken, currentUser, chat,
                    messages, groupMessages, unreadCounts,
                    groupUnreadCounts>>]_vars

\* C16: on every push connection the first frame the client writes is the
\* authenticate frame; no message, group_message, read_status or
\* group_read_status frame is written on a connection before it.
C16_AuthenticateFirst ==
  [][framesOut = 0 /\ framesOut' > 0
     => /\ framesOut' = 1
        /\ lastFrame'.type = "authenticate"]_vars

\* a message frame written as the second frame of the connection
C16_Witness ==
  /\ framesOut = 2
  /\ lastFrame.type \in {"message", "group_message", "group_read_status"}

\* C17: the client never writes a frame to the push channel unless the
\* channel is open at the moment of writing; a text send, a media send or a
\* direct read-receipt flush attempted while it is not open goes out as a
\* pull request instead.
C17_WritesOnlyWhenOpen ==
  [][/\ framesOut' > framesOut => readyState' = "OPEN"
     /\ readyState # "OPEN" =>
          /\ HandleSendMessage =>
               \E q \in pending' \ pending : q.kind = "POST /api/messages"
          /\ \A r \in pending :
               /\ UploadResp(r, "ok") =>
                    \E q \in pending' \ pending :
                      q.kind = "POST /api/send-media-message"
               /\ \A h \in HistoryResponses(DirectFor(r.peer), Existing) :
                    /\ FetchMessagesResp(r, h.status, h.S, h.R)
                    /\ h.status = "ok"
                    /\ \E m \in h.S \ h.R :
                         m.sender_id = r.peer /\ m.receiver_id = Me
                    => \E q \in pending' \ pending :
                         q.kind = "PUT /api/messages/read"]_vars

\* a read receipt in flight as a PUT although the fetch held a socket handle:
\* the socket was closing when the history arrived
C17_Witness ==
  /\ readyState = "CLOSING"
  /\ \E r \in pending : r.kind = "PUT /api/messages/read" /\ r.ws

\* C18: a notification event changes an unread counter or the conversation
\* order only when its receiver is the current user and its sender is not the
\* current user; a notification whose sender is the current user never
\* changes an unread counter.
C18_NotificationRule ==
  [][\A d \in NotificationEvents :
       /\ OnNotification(d)
       /\ ~(d.receiver_id = currentUser /\ d.sender_id # currentUser)
       => UNCHANGED <<unreadCounts, groupUnreadCounts, listVars>>]_vars

\* what a history response (S with R flagged read) holds of messages sent by
\* the peer to the current user and not yet read
InboundUnreadIds(S, R, peer) ==
  {m.id : m \in {x \in S \ R : x.sender_id = peer /\ x.receiver_id = Me}}

\* the read-receipt flush of a history response: written as a frame exactly
\* when `asFrame`, as a PUT otherwise, with exactly the ids `want`; none when
\* `want` is empty
FlushCarries(r, want, asFrame) ==
  LET puts == {q \in pending' \ pending : q.kind = "PUT /api/messages/read"}
  IN IF want = {}
     THEN framesOut' = framesOut /\ puts = {}
     ELSE IF asFrame
     THEN /\ framesOut' = framesOut + 1
          /\ lastFrame' = Frame("read_status", want)
          /\ puts = {}
     ELSE /\ framesOut' = framesOut
          /\ \E q \in puts : puts = {q} /\ q.ids = want /\ q.peer = r.peer

C20_ListedIdsFlaggedRead ==
  Receiving =>
    \A d \in ReadStatusEvents :
      d.message_ids # {} =>
        LET after == ApplyReadStatus(messages, d)
        IN /\ Len(after) = Len(messages)
           /\ \A i \in 1..Len(messages) :
                after[i].is_read =
                  (messages[i].is_read \/ messages[i].id \in d.message_ids)

\* the entries of a log with their read flags left out
Unflagged(log) ==
  [i \in 1..Len(log) |-> [log[i] EXCEPT !.is_read = FALSE]]

\* C21: marking messages read is idempotent and never changes the set of log
\* entries: applying the same read receipt twice yields the same log as
\* applying it once, and a receipt for ids that are absent or already read
\* leaves the log unchanged.  Checked for the three places that mark entries
\* read: the read_status handler, the group_read_status handler and the local
\* mark of fetchMessages.
C21_MarkReadIdempotent ==
  /\ \A d \in ReadStatusEvents :
       LET once == ApplyReadStatus(messages, d)
       IN /\ ApplyReadStatus(once, d) = once
          /\ Unflagged(once) = Unflagged(messages)
          /\ (\A i \in 1..Len(messages) :
                messages[i].id = d.message_id => messages[i].is_read)
             => once = messages
  /\ \A d \in GroupReadStatusEvents :
       LET once == ApplyGroupReadStatus(groupMessages, d, wsUser)
       IN /\ ApplyGroupReadStatus(once, d, wsUser) = once
          /\ Unflagged(once) = Unflagged(groupMessages)
          /\ (\A i \in 1..Len(groupMessages) :
                groupMessages[i].group_id = d.group_id
                /\ groupMessages[i].sender_id = wsUser
                => groupMessages[i].is_read)
             => once = groupMessages
  /\ \A ids \in SUBSET {m.id : m \in Existing} :
       LET once == MarkRead(messages, ids)
       IN /\ MarkRead(once, ids) = once
          /\ Unflagged(once) = Unflagged(messages)
          /\ (\A i \in 1..Len(messages) :
                messages[i].id \in ids => messages[i].is_read)
             => once = messages

\* the direct log holds an entry a receipt has flagged and an unread one
C21_Witness ==
  /\ Receiving
  /\ \E i, j \in 1..Len(messages) :
       messages[i].is_read /\ ~messages[j].is_read

\* C22: handling a read_status or group_read_status event changes no unread
\* counter (direct or group) and no conversation ordering.
C22_ReceiptsKeepCounters ==
  [][(\/ \E d \in ReadStatusEvents : OnReadStatus(d)
      \/ \E d \in GroupReadStatusEvents : OnGroupReadStatus(d))
     => UNCHANGED <<unreadCounts, groupUnreadCounts, users, groups>>]_vars

\* a receipt has flagged an entry while a counter is up and the list is loaded
C22_Witness ==
  /\ users # <<>>
  /\ \E u \in Users : unreadCounts[u] > 0
  /\ \E i \in 1..Len(messages) : messages[i].is_read

\* how far a connection has come
Progress(state) ==
  CASE state = "CONNECTING" -> 1
    [] state = "OPEN" -> 2
    [] state = "CLOSING" -> 3
    [] state = "CLOSED" -> 4
    [] OTHER -> 0

\* C23: each push connection moves only forward through Connecting, Open,
\* Closed; after a connection closes no new connection is opened while the
\* credential is unchanged and the chat view stays mounted, so every later
\* send in that view uses the pull path.
C23_ForwardOnlyNoReconnect ==
  [][/\ chat /\ chat' /\ authToken' = authToken
          => /\ Progress(readyState') >= Progress(readyState)
             /\ readyState = "CLOSED" => readyState' = "CLOSED"
     /\ HandleSendMessage /\ readyState = "CLOSED"
          => /\ framesOut' = framesOut
             /\ \E q \in pending' \ pending :
                  q.kind \in {"POST /api/messages", "POST /api/group-messages"}
    ]_vars

\* a send in flight as a request on a view whose connection was open and has
\* closed
C23_Witness ==
  /\ chat /\ readyState = "CLOSED" /\ framesOut >= 1
  /\ newMessage = ""
  /\ \E r \in pending : r.kind = "POST /api/messages"

\* C24: when the media upload is rejected (a non-OK, non-401 response) the
\* send is aborted: no message frame and no create-message request is issued,
\* the selected file stays selected, and the message log is unchanged.
C24_UploadRejectionAborts ==
  [][\A r \in pending :
       UploadResp(r, "500")
       => /\ framesOut' = framesOut
          /\ pending' = pending \ {r}
          /\ UNCHANGED <<selectedFile, messages, groupMessages, created>>]_vars

\* an upload is in flight for a selected file while the socket is open
C24_Witness ==
  /\ selectedFile /\ readyState = "OPEN"
  /\ \E r \in pending : r.kind = "POST /api/upload-media" /\ r.ws

\* the entries of a log that the user sent to the group
SentToGroup(log, user, group) ==
  {i \in 1..Len(log) : log[i].group_id = group /\ log[i].sender_id = user}

\* C25: after a successful fallback send of a group message (POST
\* /api/group-messages answered OK while the push channel is not open) the
\* sent message is absorbed into the group's log exactly once.
C25_GroupFallbackAbsorbed ==
  [][\A r \in pending :
       SendGroupMessageResp(r, "ok") /\ ~PushOpen
       => Cardinality(SentToGroup(groupMessages', currentUser, r.peer))
            = Cardinality(SentToGroup(groupMessages, currentUser, r.peer)) + 1]_vars

\* a log without its read flags: which messages it holds, in which order
Unmarked(log) ==
  [i \in 1..Len(log) |-> [f \in DOMAIN log[i] \ {"is_read"} |-> log[i][f]]]

\* the shown log is the fetched array: the same entries in the same order,
\* every entry fetched as read shown as read (the flush that follows the fetch
\* may flag further entries read)
IsFetched(shown, fetched) ==
  /\ Unmarked(shown) = Unmarked(fetched)
  /\ \A i \in 1..Len(fetched) : fetched[i].is_read => shown[i].is_read = TRUE

\* C26: when the history fetch for the still-focused conversation resolves,
\* the log shown is replaced by the fetched history: it holds exactly the
\* fetched messages between the current user and the focused peer (or of the
\* focused group), in the order fetched, and the chat view is up.
C26_HistoryReplacesLog ==
  [][\A r \in pending :
       /\ \A h \in ReadHistoryResponses(Existing) :
            /\ h.status = "ok" /\ selectedUser = r.peer
            /\ FetchMessagesResp(r, h.status, h.S, h.R)
            => /\ chat'
               /\ IsFetched(FilteredMessages',
                    HistoryData({m \in h.S : {m.sender_id, m.receiver_id}
                                               = {currentUser, selectedUser}},
                                h.R))
       /\ \A h \in ReadHistoryResponses(GroupUniverse) :
            /\ h.status = "ok" /\ selectedGroup = r.peer
            /\ FetchGroupMessagesResp(r, h.status, h.S, h.R)
            => /\ chat'
               /\ IsFetched(FilteredMessages',
                    GroupHistoryData({m \in h.S : m.group_id = selectedGroup},
                                     h.R))]_vars

\* the log shown for u2 is a fetched history (entries flagged read come from a
\* fetch only) while the server also holds a message of u21
C26_Witness ==
  /\ selectedUser = "u2"
  /\ Len(messages) >= 1 /\ FilteredMessages = messages
  /\ \A i \in 1..Len(messages) : messages[i].is_read = TRUE
  /\ \E m \in Existing : m.sender_id = "u21"
  /\ \A r \in pending : r.kind # "GET /api/messages"

\* the conversation a direct message event belongs to: the other party
EventPeer(data) ==
  IF data.sender_id = currentUser THEN data.receiver_id ELSE data.sender_id

\* C27: a push message event for a conversation other than the focused one
\* is absorbed into the message store and leaves the log shown for the
\* focused conversation unchanged; besides the store it changes only the
\* conversation order and the unread counters.
C27_OtherConversationPush ==
  [][/\ \A d \in MessageEvents :
          OnMessage(d) /\ EventPeer(d) # selectedUser
          => /\ Exists(messages', d.id)
             /\ FilteredMessages' = FilteredMessages
             /\ UNCHANGED <<appVars, chat, groups, invitations, groupMessages,
                            selVars, newMessage, groupUnreadCounts, sockVars,
                            pending>>
     /\ \A d \in GroupMessageEvents :
          OnGroupMessage(d) /\ d.group_id # selectedGroup
          => /\ Exists(groupMessages', d.id)
             /\ FilteredMessages' = FilteredMessages
             /\ UNCHANGED <<appVars, chat, listVars, messages, selVars,
                            newMessage, unreadCounts, sockVars, pending>>]_vars

\* u2 is focused with nothing to show while the store holds a pushed message
\* of u21 and a pushed message of a group
C27_Witness ==
  /\ selectedUser = "u2" /\ FilteredMessages = <<>>
  /\ \E i \in 1..Len(messages) :
       messages[i].sender_id = "u21" /\ messages[i].is_read = FALSE
  /\ Len(groupMessages) >= 1

\* the place of an item in a list
PlaceIn(list, item) == CHOOSE i \in 1..Len(list) : list[i] = item

\* a displayed order that follows last-message recency, conversations
\* without messages in the order combinedList holds them
ByRecency(p) ==
  \A i, j \in 1..Len(p) :
    i < j =>
      /\ LastTimestamp(p[j]) <= LastTimestamp(p[i])
      /\ LastTimestamp(p[i]) = 0 =>
           PlaceIn(CombinedList, p[i]) < PlaceIn(CombinedList, p[j])

\* C28: the displayed conversation list (users and groups together) is
\* ordered by last-message recency: of any two conversations the one with
\* the later last-message timestamp is listed earlier, and conversations with
\* no messages keep their insertion order.
C28_ListByRecency == \A p \in Sorted(CombinedList) : ByRecency(p)

\* C29: when a conversation (direct or group) receives a new inbound message
\* while it is not focused, that conversation is first in the displayed
\* conversation order immediately afterwards.
C29_InboundMovesToTop ==
  [][/\ \A d \in MessageEvents :
          /\ OnMessage(d) /\ ~Exists(messages, d.id)
          /\ d.sender_id # currentUser /\ selectedUser # d.sender_id
          /\ \E i \in 1..Len(users) : users[i] = d.sender_id
          => \A p \in Sorted(CombinedList)' :
               p[1] = [type |-> "user", id |-> d.sender_id]
     /\ \A d \in GroupMessageEvents :
          /\ OnGroupMessage(d) /\ ~Exists(groupMessages, d.id)
          /\ d.sender_id # currentUser /\ selectedGroup # d.group_id
          /\ \E i \in 1..Len(groups) : groups[i].id = d.group_id
          => \A p \in Sorted(CombinedList)' :
               p[1] = [type |-> "group", id |-> d.group_id]]_vars

\* a push frame of some type is handled
PushHandled ==
  \/ \E d \in MessageEvents : OnMessage(d)
  \/ \E d \in GroupMessageEvents : OnGroupMessage(d)
  \/ \E d \in NotificationEvents : OnNotification(d)
  \/ \E d \in ReadStatusEvents : OnReadStatus(d)
  \/ \E d \in GroupReadStatusEvents : OnGroupReadStatus(d)
  \/ \E d \in ErrorEvents : OnError(d)

\* the requests whose responses set the group list or the invitation list
ListRequests ==
  {"GET /api/groups", "GET /api/group-invitations", "POST /api/groups",
   "GET /api/groups (accepted)", "PUT /api/groups"}

\* C30 as stated: no push event of any type (message, group_message,
\* notification, read_status, group_read_status, error) changes the group
\* list, any group's member set or the pending invitation list.
C30_NoPushChangesLists ==
  [][PushHandled => UNCHANGED <<groups, invitations>>]_vars

\* C30: no push event changes the group list, any group's member set or the
\* pending invitation list while the session lasts; an error frame citing
\* credential expiry ends the session and the lists go with the view.  In a
\* session the lists change only with the response to a directory fetch or to
\* a create, update or invitation-accept request.
C30_ListsChangeByRequestOnly ==
  [][/\ PushHandled => \/ UNCHANGED <<groups, invitations>>
                       \/ /\ ~chat' /\ authToken' = NULL
                          /\ groups' = <<>> /\ invitations' = <<>>
                          /\ OnError([message |-> "Token has expired"])
     /\ chat' /\ <<groups, invitations>>' # <<groups, invitations>>
        => \E r \in pending \ pending' : r.kind \in ListRequests]_vars

\* both lists are loaded, g1 has its two members, and a pushed group message
\* and a pushed direct message are in the store
C30_Witness ==
  /\ chat /\ Len(invitations) = 1
  /\ \E i \in 1..Len(groups) :
       groups[i].id = "g1" /\ groups[i].members = {"u1", "u2"}
  /\ Len(messages) >= 1 /\ Len(groupMessages) >= 1

\* the client state holds something that stands for a text send not yet
\* acknowledged: the draft, a log entry without a server id, or the fallback
\* request still in flight
SendRepresented ==
  \/ newMessage # ""
  \/ \E i \in 1..Len(messages) : messages[i].id = "tmp"
  \/ \E i \in 1..Len(groupMessages) : groupMessages[i].id = "tmp"
  \/ \E r \in pending :
       r.live /\ r.kind \in {"POST /api/messages", "POST /api/group-messages"}

\* C31: a text send that is never acknowledged (no echo arrives, or the
\* fallback request fails) remains represented in the client state as
\* sent-but-unconfirmed until acknowledged; it is not silently dropped.
C31_UnconfirmedSendKept ==
  [][/\ HandleSendMessage => SendRepresented'
     /\ \A r \in pending, st \in {"500", "neterr"} :
          chat' /\ (SendMessageResp(r, st) \/ SendGroupMessageResp(r, st))
          => SendRepresented']_vars

\* the ids of the entries of a log
IdsOf(log) == {log[i].id : i \in 1..Len(log)}

\* C32: a message inserted from a push event into the log of the focused
\* conversation stays in that log for as long as that conversation remains
\* focused, also when a history-fetch response for the same conversation that
\* was requested before the message existed arrives afterwards.
C32_PushedEntryStays ==
  [][/\ chat' /\ selectedUser' = selectedUser /\ selectedGroup' = selectedGroup
     => IdsOf(FilteredMessages) \subseteq IdsOf(FilteredMessages')]_vars

\* a step of the periodic directory refresh: the tick, or one of its
\* requests answered with one of the statuses
DirectoryRefreshStep(statuses) ==
  \/ DirectoryTick
  \/ \E r \in pending, st \in statuses : DirectoryResp(r, st)
  \/ \E r \in pending, st \in statuses, l \in GroupListings :
       GroupsResp(r, st, l)
  \/ \E r \in pending, st \in statuses, l \in InvitationListings :
       InvitationsResp(r, st, l)

\* C33: a periodic directory refresh (users, groups, invitations),
\* interleaved at any point with push event handling, leaves the message
\* logs and the unread counters unchanged.  (A 401 answer, which ends the
\* session, is set apart.)
C33_RefreshKeepsLogs ==
  [][DirectoryRefreshStep({"ok", "500", "neterr"})
     => UNCHANGED <<logVars, countVars>>]_vars

\* C34: the periodic directory refresh is scheduled with the session and
\* cancelled when the session ends: a tick fires only in a mounted chat view,
\* and after the view is torn down (logout or credential change) no users
\* request is started until a chat view is mounted again.
C34_TicksOnlyInSession ==
  [][/\ DirectoryTick => chat /\ chat'
     /\ \A r \in pending' \ pending :
          r.live /\ r.kind = "GET /api/users" => chat']_vars

\* a session has ended while a users request of its refresh was in flight
C34_Witness ==
  /\ ~chat /\ authToken = NULL
  /\ \E r \in pending : ~r.live /\ r.kind = "GET /api/users"

\* C35: on an inbound group_read_status event for group G, exactly the
\* group-log entries that belong to G and were sent by the current user have
\* their read flag set; entries of other groups and entries sent by other
\* users are unchanged.
C35_GroupReceiptFlagsOwn ==
  Receiving /\ currentUser # NULL =>
    \A d \in GroupReadStatusEvents :
      LET after == ApplyGroupReadStatus(groupMessages, d, wsUser)
      IN /\ Unflagged(after) = Unflagged(groupMessages)
         /\ \A i \in 1..Len(groupMessages) :
              after[i].is_read =
                IF /\ groupMessages[i].group_id = d.group_id
                   /\ groupMessages[i].sender_id = currentUser
                THEN TRUE
                ELSE groupMessages[i].is_read

\* C36: while the newest connection is open and stays open in a mounted
\* view, no step clears the handle that refers to it; in particular the close
\* event of a superseded connection leaves the handle of the newer one alone
C36_SupersededCloseKeepsHandle ==
  [][websocket /\ readyState = "OPEN" /\ readyState' = "OPEN" /\ chat'
     => websocket']_vars

\* selections made from the lists while the focused group is edited
NextSelect ==
  \/ DirectoryTick
  \/ \E r \in pending : DirectoryResp(r, "ok")
  \/ \E r \in pending, l \in GroupListings : GroupsResp(r, "ok", l)
  \/ \E r \in pending, l \in InvitationListings : InvitationsResp(r, "ok", l)
  \/ \E i \in 1..Len(users) : HandleSelectUser(users[i])
  \/ \E i \in 1..Len(groups) : HandleSelectGroup(groups[i].id)
  \/ UpdateSelectedGroup
  \/ \E r \in pending, st \in AllStatuses, g \in GroupRecords :
       UpdateGroupResp(r, st, g)
  \/ \E r \in pending :
       \E h \in ReadHistoryResponses(Existing) :
         FetchMessagesResp(r, h.status, h.S, h.R)
  \/ \E r \in pending :
       \E h \in ReadHistoryResponses(GroupUniverse) :
         FetchGroupMessagesResp(r, h.status, h.S, h.R)

SpecSelect == InitChat /\ [][NextSelect]_vars

\* C37: in every reachable state at most one of the focused direct
\* conversation and the focused group is set
C37_OneSelection ==
  ~(selectedUser # NULL /\ selectedGroup # NULL)

C39_ChatOnlyWithCredential ==
  /\ [](chat => authToken # NULL)
  /\ [][/\ Logout => authToken' = NULL /\ ~storedToken' /\ ~chat'
        /\ \A r \in pending :
             /\ CurrentUserResp(r, "401")
                => authToken' = NULL /\ ~storedToken' /\ ~chat'
             /\ CurrentUserResp(r, "neterr")
                => UNCHANGED <<authToken, storedToken, chat>>]_vars

\* the check has failed with a network error: the chat view stays mounted
\* with its credential although the current user never became known
C39_Witness ==
  /\ chat /\ authToken # NULL /\ storedToken /\ currentUser = NULL
  /\ \A r \in pending : r.kind # "GET /api/current-user"

====
